---------------------------- MODULE Spec2Model ----------------------------
(***************************************************************************)
(* ProjectPlanner: the REST-backed task store (services/store.ts), its     *)
(* data service and backend (services/data.ts, backend/src/index.ts), the  *)
(* App handlers that drive it (App.tsx) and the view-model builder         *)
(* (processedTasks in App.tsx).                                            *)
(***************************************************************************)
EXTENDS Integers, Sequences, FiniteSets, TLC

(***************************************************************************)
(* Bounds of the model.                                                    *)
(***************************************************************************)
NumInitialTasks == 1      \* how many of the INITIAL_TASKS entries are kept
MaxPending == 2           \* requests in flight at the same time
MaxOps == 3               \* user/store operations started in one behaviour
MaxClock == 2             \* last value of the Date.now() clock
MaxExports == 1           \* files written by handleExportJSON
MaxViewTasks == 3         \* tasks handed to the view-model builder
MaxRangeTasks == 2        \* tasks handed to dateRange
NumCallbacks == 2         \* distinct subscriber callbacks

(***************************************************************************)
(* JavaScript values that are not task data.                               *)
(***************************************************************************)
Undefined == -1
Null == -2

Range(s) == {s[i] : i \in 1..Len(s)}

RECURSIVE SetToSeq(_)
SetToSeq(S) ==
  IF S = {} THEN <<>> ELSE LET x == CHOOSE y \in S : \A z \in S : y <= z
                           IN  <<x>> \o SetToSeq(S \ {x})

\* JavaScript truthiness of an id-valued field (0, null, undefined are falsy)
Truthy(v) == v # Undefined /\ v # Null /\ v # 0

\* Array.prototype.findIndex, 1-based; 0 stands for -1
FindIndex(s, id) ==
  IF \E i \in 1..Len(s) : s[i].id = id
  THEN CHOOSE i \in 1..Len(s) : s[i].id = id /\ \A j \in 1..(i-1) : s[j].id # id
  ELSE 0

(***************************************************************************)
(* types.ts: Task and INITIAL_TASKS.  A date string YYYY-MM-DD is the      *)
(* triple <<y, m, d>>; task names are abbreviated.                         *)
(***************************************************************************)
TaskKeys == {"id", "name", "start", "end", "type", "status", "owner",
             "dependencies", "order", "parentId", "isExpanded"}

AllInitialTasks == <<
  [id |-> 1, name |-> "T1", start |-> <<2025,3,17>>, end |-> <<2025,3,23>>, type |-> "prep",
   status |-> "done", owner |-> "PMO", dependencies |-> <<>>, order |-> 0,
   parentId |-> Undefined, isExpanded |-> TRUE],
  [id |-> 2, name |-> "T2", start |-> <<2025,3,24>>, end |-> <<2025,3,24>>, type |-> "cutover",
   status |-> "todo", owner |-> "Ops", dependencies |-> <<1>>, order |-> 1,
   parentId |-> Undefined, isExpanded |-> TRUE],
  [id |-> 3, name |-> "T3", start |-> <<2025,3,24>>, end |-> <<2025,3,30>>, type |-> "upstream",
   status |-> "todo", owner |-> "Up", dependencies |-> <<2>>, order |-> 2,
   parentId |-> Undefined, isExpanded |-> TRUE],
  [id |-> 4, name |-> "T4", start |-> <<2025,3,31>>, end |-> <<2025,4,6>>, type |-> "upstream",
   status |-> "todo", owner |-> "Up", dependencies |-> <<3>>, order |-> 3,
   parentId |-> Undefined, isExpanded |-> TRUE],
  [id |-> 5, name |-> "T5", start |-> <<2025,3,31>>, end |-> <<2025,3,31>>, type |-> "milestone",
   status |-> "todo", owner |-> "MDM", dependencies |-> <<4>>, order |-> 4,
   parentId |-> Undefined, isExpanded |-> TRUE],
  [id |-> 6, name |-> "T6", start |-> <<2025,3,31>>, end |-> <<2025,4,6>>, type |-> "downstream",
   status |-> "todo", owner |-> "DownA", dependencies |-> <<5>>, order |-> 5,
   parentId |-> Undefined, isExpanded |-> TRUE],
  [id |-> 7, name |-> "T7", start |-> <<2025,4,7>>, end |-> <<2025,4,13>>, type |-> "downstream",
   status |-> "todo", owner |-> "DownB", dependencies |-> <<6>>, order |-> 6,
   parentId |-> Undefined, isExpanded |-> TRUE],
  [id |-> 8, name |-> "T8", start |-> <<2025,4,14>>, end |-> <<2025,4,20>>, type |-> "downstream",
   status |-> "todo", owner |-> "DownC", dependencies |-> <<7>>, order |-> 7,
   parentId |-> Undefined, isExpanded |-> TRUE],
  [id |-> 9, name |-> "T9", start |-> <<2025,4,21>>, end |-> <<2025,4,27>>, type |-> "downstream",
   status |-> "todo", owner |-> "DownD", dependencies |-> <<8>>, order |-> 8,
   parentId |-> Undefined, isExpanded |-> TRUE],
  [id |-> 10, name |-> "T10", start |-> <<2025,4,28>>, end |-> <<2025,5,4>>, type |-> "prep",
   status |-> "todo", owner |-> "All", dependencies |-> <<9>>, order |-> 9,
   parentId |-> Undefined, isExpanded |-> TRUE] >>

\* the module constant as it is at load time (first NumInitialTasks entries)
INITIAL_TASKS == SubSeq(AllInitialTasks, 1, NumInitialTasks)

\* the epoch of the Date.now() clock: larger than every INITIAL_TASKS id
ClockBase == 100

(***************************************************************************)
(* JSON.stringify / JSON.parse of a task: a key whose value is undefined   *)
(* is not written; a key that is not in the text reads as undefined.       *)
(***************************************************************************)
JsonStringifyTask(t) ==
  IF t.parentId = Undefined
  THEN [k \in TaskKeys \ {"parentId"} |-> t[k]]
  ELSE [k \in TaskKeys |-> t[k]]

JsonParseTask(j) ==
  [k \in TaskKeys |-> IF k \in DOMAIN j THEN j[k] ELSE Undefined]

JsonStringify(tasks) == [i \in 1..Len(tasks) |-> JsonStringifyTask(tasks[i])]
JsonParse(items) == [i \in 1..Len(items) |-> JsonParseTask(items[i])]


(***************************************************************************)
(* State.                                                                  *)
(***************************************************************************)
VARIABLES
  currentTasks,   \* store.ts: let currentTasks
  initialTasks,   \* the contents of the INITIAL_TASKS array object
  aliased,        \* currentTasks and INITIAL_TASKS are the same array object
  subscribers,    \* store.ts: const subscribers
  received,       \* per callback: was it ever invoked, and its last snapshot
  handles,        \* callbacks whose unsubscribe function has been returned
  db,             \* backend: rows of table tasks
  serial,         \* backend: next value of the id sequence of table tasks
  pending,        \* requests in flight and promise continuations not yet run
  selectedTask,   \* App: selectedTask (<<>> is null)
  focusedTaskId,  \* App: focusedTaskId (Null is null)
  exportFile,     \* the files written by handleExportJSON so far
  now,            \* the last value Date.now() returned
  ops,            \* operations started so far
  lastEvent,      \* what the last handler did (history)
  cascade,        \* the last App.deleteTask: its ids, and those not yet deleted (history)
  view            \* one run of the view-model builder

storeVars == <<currentTasks, initialTasks, aliased, subscribers, received, handles,
               db, serial, pending, selectedTask, focusedTaskId, exportFile, now, ops,
               lastEvent, cascade>>
vars == <<currentTasks, initialTasks, aliased, subscribers, received, handles,
          db, serial, pending, selectedTask, focusedTaskId, exportFile, now, ops, lastEvent, cascade, view>>

Callbacks == 1..NumCallbacks
AppCb == 1      \* the callback App passes to store.subscribe

\* App: the tasks state, set by the subscription callback (useState([]))
appTasks == received[AppCb].tasks

NoEvent == [kind |-> "none", origin |-> "none", ok |-> TRUE, notified |-> FALSE,
            toast |-> "none", errorToast |-> FALSE, src |-> <<>>]

(***************************************************************************)
(* backend/src/index.ts                                                    *)
(***************************************************************************)
\* the row written for a request body: an absent parentId is stored as NULL
RowOf(body) ==
  [k \in TaskKeys |-> IF k \in DOMAIN body THEN body[k] ELSE Null]

\* INSERT ... ON CONFLICT (id) DO UPDATE
Upsert(rows, row) == {r \in rows : r.id # row.id} \cup {row}

\* POST /api/tasks: the table, the sequence and the response id afterwards
PostTask(rows, seqno, body) ==
  IF Truthy(body.id)
  THEN [rows |-> Upsert(rows, RowOf(body)), serial |-> seqno, ok |-> TRUE, id |-> Undefined]
  ELSE IF \E r \in rows : r.id = seqno
       THEN [rows |-> rows, serial |-> seqno + 1, ok |-> FALSE, id |-> Undefined]
       ELSE [rows |-> rows \cup {[RowOf(body) EXCEPT !.id = seqno]},
             serial |-> seqno + 1, ok |-> TRUE, id |-> seqno]

\* PUT /api/tasks/sync: the upserts of the loop, in order
RECURSIVE SyncLoop(_, _)
SyncLoop(rows, bodies) ==
  IF bodies = <<>> THEN rows
  ELSE SyncLoop(Upsert(rows, RowOf(Head(bodies))), Tail(bodies))

\* the upserts run on the pool, each committed on its own
SyncTasksTxn_autocommit(rows, bodies, failAt) ==
  SyncLoop(rows, IF failAt = 0 THEN bodies ELSE SubSeq(bodies, 1, failAt - 1))

\* BEGIN, the upserts before the one that throws (number failAt; 0: none
\* throws) on the transaction's client, then COMMIT, or ROLLBACK in the catch
SyncTasksTxn(rows, bodies, failAt) ==
  LET work == SyncLoop(rows, IF failAt = 0 THEN bodies ELSE SubSeq(bodies, 1, failAt - 1))
  IN  IF failAt = 0 THEN work ELSE rows

\* DELETE /api/tasks/:id
DeleteRow(rows, id) == {r \in rows : r.id # id}

\* GET /api/tasks: SELECT * FROM tasks ORDER BY display_order ASC; rows of
\* equal display_order come in any order
GetTasks(rows) ==
  {s \in [1..Cardinality(rows) -> rows] :
     /\ \A i, j \in 1..Cardinality(rows) : i # j => s[i] # s[j]
     /\ \A i, j \in 1..Cardinality(rows) : i < j => s[i].order <= s[j].order}

(***************************************************************************)
(* Requests.  phase: "sent" (not yet handled by the backend), "ok"/"fail"  *)
(* (response received, continuation not yet run); resetToDefault runs two  *)
(* requests: "sent", "ok1", "sent2", then "ok"/"fail".                     *)
(***************************************************************************)
\* src (history): for an updateTask call made while another updateTask call
\* for the same id has not completed, that id
Req(op, origin, toast, task, id, tasks) ==
  [op |-> op, origin |-> origin, toast |-> toast, task |-> task, id |-> id,
   tasks |-> tasks, phase |-> "sent", resp |-> <<>>, respId |-> Undefined,
   src |-> IF op = "updateTask"
              /\ \E q \in pending : q.op = "updateTask" /\ q.task[1].id = task[1].id
           THEN <<task[1].id>> ELSE <<>>,
   dup |-> 0]

\* a request identical to one in flight is told apart by its dup number
RECURSIVE Tagged(_, _)
Tagged(pend, r) == IF r \in pend THEN Tagged(pend, [r EXCEPT !.dup = @ + 1]) ELSE r

RECURSIVE Enqueue(_, _)
Enqueue(pend, reqs) ==
  IF reqs = <<>> THEN pend
  ELSE Enqueue(pend \cup {Tagged(pend, Head(reqs))}, Tail(reqs))

CanStart(n) == ops < MaxOps /\ Cardinality(pending) + n <= MaxPending

(***************************************************************************)
(* services/store.ts                                                       *)
(***************************************************************************)
\* notify() with a loop that stops one subscriber short
notify_skipLast(cur) ==
  [cb \in Callbacks |->
     IF cb \in Range(SubSeq(subscribers, 1, Len(subscribers) - 1))
     THEN [got |-> TRUE, tasks |-> cur] ELSE received[cb]]

\* notify(): every subscribed callback receives a copy of the collection
notify(cur) ==
  [cb \in Callbacks |->
     IF cb \in Range(subscribers) THEN [got |-> TRUE, tasks |-> cur] ELSE received[cb]]

Event(kind, origin, ok, notified, toast, errorToast, src) ==
  [kind |-> kind, origin |-> origin, ok |-> ok, notified |-> notified,
   toast |-> toast, errorToast |-> errorToast, src |-> src]

Completed(r, ok, notified) == Event(r.op, r.origin, ok, notified, r.toast, FALSE, r.src)

Mutations == {"addTask", "updateTask", "deleteTask", "replaceAllTasks", "resetToDefault"}

\* store.subscribe(callback)
subscribe(cb) ==
  /\ CanStart(1)
  /\ Len(subscribers) < NumCallbacks + 1
  /\ subscribers' = Append(subscribers, cb)
  /\ pending' = Enqueue(pending, <<Req("getTasks", "subscribe", "none", <<>>, Undefined, <<>>)>>)
  /\ handles' = handles \cup {cb}
  /\ ops' = ops + 1
  /\ lastEvent' = Event("subscribe", "subscribe", TRUE, FALSE, "none", FALSE, <<>>)
  /\ UNCHANGED <<currentTasks, initialTasks, aliased, received, db, serial,
                 selectedTask, focusedTaskId, exportFile, now, cascade, view>>

\* an unsubscribe function without the test index > -1: splice(-1, 1)
\* removes the last subscriber
unsubscribe_unguarded(cb) ==
  /\ ops < MaxOps
  /\ cb \in handles
  /\ subscribers' =
       IF cb \in Range(subscribers)
       THEN LET i == CHOOSE k \in 1..Len(subscribers) :
                       subscribers[k] = cb /\ \A j \in 1..(k-1) : subscribers[j] # cb
            IN  SubSeq(subscribers, 1, i - 1) \o SubSeq(subscribers, i + 1, Len(subscribers))
       ELSE SubSeq(subscribers, 1, Len(subscribers) - 1)
  /\ ops' = ops + 1
  /\ lastEvent' = Event("unsubscribe", "unsubscribe", TRUE, FALSE, "none", FALSE, <<cb>>)
  /\ UNCHANGED <<currentTasks, initialTasks, aliased, received, handles, db, serial,
                 pending, selectedTask, focusedTaskId, exportFile, now, cascade, view>>

\* the function returned by store.subscribe(callback); the event remembers
\* the callback it was made for
unsubscribe(cb) ==
  /\ ops < MaxOps
  /\ cb \in handles
  /\ subscribers' =
       IF cb \in Range(subscribers)
       THEN LET i == CHOOSE k \in 1..Len(subscribers) :
                       subscribers[k] = cb /\ \A j \in 1..(k-1) : subscribers[j] # cb
            IN  SubSeq(subscribers, 1, i - 1) \o SubSeq(subscribers, i + 1, Len(subscribers))
       ELSE subscribers
  /\ ops' = ops + 1
  /\ lastEvent' = Event("unsubscribe", "unsubscribe", TRUE, FALSE, "none", FALSE, <<cb>>)
  /\ UNCHANGED <<currentTasks, initialTasks, aliased, received, handles, db, serial,
                 pending, selectedTask, focusedTaskId, exportFile, now, cascade, view>>

\* subscribe: the .then of dataService.getTasks()
getTasks_then(r) ==
  /\ r \in pending /\ r.op = "getTasks" /\ r.phase = "ok"
  /\ IF Len(r.resp) > 0
     THEN /\ currentTasks' = r.resp
          /\ aliased' = FALSE
          /\ pending' = pending \ {r}
     ELSE /\ currentTasks' = initialTasks
          /\ aliased' = TRUE
          /\ pending' = Enqueue(pending \ {r},
                 <<Req("syncTasks", "subscribe", "none", <<>>, Undefined, initialTasks)>>)
  /\ received' = notify(currentTasks')
  /\ lastEvent' = Completed(r, TRUE, TRUE)
  /\ UNCHANGED <<initialTasks, subscribers, handles, db, serial, selectedTask, focusedTaskId,
                 exportFile, now, ops, cascade, view>>

\* subscribe: the .catch of dataService.getTasks()
getTasks_catch(r) ==
  /\ r \in pending /\ r.op = "getTasks" /\ r.phase = "fail"
  /\ currentTasks' = initialTasks
  /\ aliased' = TRUE
  /\ pending' = pending \ {r}
  /\ received' = notify(currentTasks')
  /\ lastEvent' = Completed(r, FALSE, TRUE)
  /\ UNCHANGED <<initialTasks, subscribers, handles, db, serial, selectedTask, focusedTaskId,
                 exportFile, now, ops, cascade, view>>

\* subscribe: dataService.syncTasks(INITIAL_TASKS) is not awaited; its
\* settlement runs no code of the store
syncTasks_settled(r) ==
  /\ r \in pending /\ r.op = "syncTasks" /\ r.phase \in {"ok", "fail"}
  /\ pending' = pending \ {r}
  /\ lastEvent' = Completed(r, r.phase = "ok", FALSE)
  /\ UNCHANGED <<currentTasks, initialTasks, aliased, subscribers, received, handles,
                 db, serial, selectedTask, focusedTaskId, exportFile, now, ops, cascade, view>>

\* store.addTask after await dataService.saveTask(task)
addTask_then(r) ==
  /\ r \in pending /\ r.op = "addTask" /\ r.phase = "ok"
  /\ LET task == IF Truthy(r.respId) THEN [r.task[1] EXCEPT !.id = r.respId] ELSE r.task[1]
     IN  /\ currentTasks' = Append(currentTasks, task)
         /\ initialTasks' = IF aliased THEN currentTasks' ELSE initialTasks
  /\ received' = notify(currentTasks')
  /\ pending' = pending \ {r}
  /\ lastEvent' = Completed(r, TRUE, TRUE)
  /\ UNCHANGED <<aliased, subscribers, handles, db, serial, selectedTask, focusedTaskId,
                 exportFile, now, ops, cascade, view>>

\* an updateTask that removes the task and pushes the new one
updateTask_then_moveToEnd(r) ==
  /\ r \in pending /\ r.op = "updateTask" /\ r.phase = "ok"
  /\ LET index == FindIndex(currentTasks, r.task[1].id)
     IN  IF index > 0
         THEN /\ currentTasks' =
                   Append(SelectSeq(currentTasks, LAMBDA t : t.id # r.task[1].id), r.task[1])
              /\ initialTasks' = IF aliased THEN currentTasks' ELSE initialTasks
              /\ received' = notify(currentTasks')
              /\ lastEvent' = Completed(r, TRUE, TRUE)
         ELSE /\ UNCHANGED <<currentTasks, initialTasks, received>>
              /\ lastEvent' = Completed(r, TRUE, FALSE)
  /\ pending' = pending \ {r}
  /\ UNCHANGED <<aliased, subscribers, handles, db, serial, selectedTask, focusedTaskId,
                 exportFile, now, ops, cascade, view>>

\* store.updateTask after await dataService.saveTask(task)
updateTask_then(r) ==
  /\ r \in pending /\ r.op = "updateTask" /\ r.phase = "ok"
  /\ LET index == FindIndex(currentTasks, r.task[1].id)
     IN  IF index > 0
         THEN /\ currentTasks' = [currentTasks EXCEPT ![index] = r.task[1]]
              /\ initialTasks' = IF aliased THEN currentTasks' ELSE initialTasks
              /\ received' = notify(currentTasks')
              /\ lastEvent' = Completed(r, TRUE, TRUE)
         ELSE /\ UNCHANGED <<currentTasks, initialTasks, received>>
              /\ lastEvent' = Completed(r, TRUE, FALSE)
  /\ pending' = pending \ {r}
  /\ UNCHANGED <<aliased, subscribers, handles, db, serial, selectedTask, focusedTaskId,
                 exportFile, now, ops, cascade, view>>

\* store.deleteTask after await dataService.deleteTask(id)
deleteTask_then(r) ==
  /\ r \in pending /\ r.op = "deleteTask" /\ r.phase = "ok"
  /\ currentTasks' = SelectSeq(currentTasks, LAMBDA t : t.id # r.id)
  /\ aliased' = FALSE
  /\ received' = notify(currentTasks')
  /\ pending' = pending \ {r}
  /\ lastEvent' = Completed(r, TRUE, TRUE)
  /\ cascade' = IF r.src = SetToSeq(cascade.ids)
                THEN [cascade EXCEPT !.left = @ \ {r.id}] ELSE cascade
  /\ UNCHANGED <<initialTasks, subscribers, handles, db, serial, selectedTask, focusedTaskId,
                 exportFile, now, ops, view>>

\* store.replaceAllTasks after await dataService.syncTasks(tasks)
replaceAllTasks_then(r) ==
  /\ r \in pending /\ r.op = "replaceAllTasks" /\ r.phase = "ok"
  /\ currentTasks' = r.tasks
  /\ aliased' = FALSE
  /\ received' = notify(currentTasks')
  /\ pending' = pending \ {r}
  /\ lastEvent' = Completed(r, TRUE, TRUE)
  /\ UNCHANGED <<initialTasks, subscribers, handles, db, serial, selectedTask, focusedTaskId,
                 exportFile, now, ops, cascade, view>>

\* store.resetToDefault after await dataService.resetData(): it sends
\* dataService.syncTasks(INITIAL_TASKS)
resetToDefault_sync(r) ==
  /\ r \in pending /\ r.op = "resetToDefault" /\ r.phase = "ok1"
  /\ pending' = (pending \ {r}) \cup {[r EXCEPT !.phase = "sent2", !.tasks = initialTasks]}
  /\ UNCHANGED <<currentTasks, initialTasks, aliased, subscribers, received, handles,
                 db, serial, selectedTask, focusedTaskId, exportFile, now, ops, lastEvent, cascade, view>>

\* store.resetToDefault after await dataService.syncTasks(INITIAL_TASKS)
resetToDefault_then(r) ==
  /\ r \in pending /\ r.op = "resetToDefault" /\ r.phase = "ok"
  /\ currentTasks' = initialTasks
  /\ aliased' = TRUE
  /\ received' = notify(currentTasks')
  /\ pending' = pending \ {r}
  /\ lastEvent' = Completed(r, TRUE, TRUE)
  /\ UNCHANGED <<initialTasks, subscribers, handles, db, serial, selectedTask, focusedTaskId,
                 exportFile, now, ops, cascade, view>>

\* a catch block that calls notify()
mutation_catch_notifies(r) ==
  /\ r \in pending /\ r.op \in Mutations /\ r.phase = "fail"
  /\ pending' = pending \ {r}
  /\ received' = notify(currentTasks)
  /\ lastEvent' = Event(r.op, r.origin, FALSE, TRUE, r.toast, FALSE, r.src)
  /\ UNCHANGED <<currentTasks, initialTasks, aliased, subscribers, handles,
                 db, serial, selectedTask, focusedTaskId, exportFile, now, ops, cascade, view>>

\* the catch block of addTask, updateTask, deleteTask, replaceAllTasks and
\* resetToDefault: console.error(err)
mutation_catch(r) ==
  /\ r \in pending /\ r.op \in Mutations /\ r.phase = "fail"
  /\ pending' = pending \ {r}
  /\ lastEvent' = Completed(r, FALSE, FALSE)
  /\ UNCHANGED <<currentTasks, initialTasks, aliased, subscribers, received, handles,
                 db, serial, selectedTask, focusedTaskId, exportFile, now, ops, cascade, view>>

(***************************************************************************)
(* The backend handles a request (services/data.ts sends it and turns a    *)
(* response that is not ok, or a network error, into a rejection).         *)
(***************************************************************************)
Settle(r, phase, resp, respId) ==
  (pending \ {r}) \cup {[r EXCEPT !.phase = phase, !.resp = resp, !.respId = respId]}

InFlight(r) == r \in pending /\ r.phase \in {"sent", "sent2"}

\* GET /api/tasks
BackendGet(r) ==
  /\ InFlight(r) /\ r.op = "getTasks"
  /\ \E s \in GetTasks(db) : pending' = Settle(r, "ok", s, Undefined)
  /\ UNCHANGED <<currentTasks, initialTasks, aliased, subscribers, received, handles,
                 db, serial, selectedTask, focusedTaskId, exportFile, now, ops, lastEvent, cascade, view>>

\* POST /api/tasks
BackendPost(r) ==
  /\ InFlight(r) /\ r.op \in {"addTask", "updateTask"}
  /\ LET res == PostTask(db, serial, JsonStringifyTask(r.task[1]))
     IN  /\ db' = res.rows
         /\ serial' = res.serial
         /\ pending' = Settle(r, IF res.ok THEN "ok" ELSE "fail", <<>>, res.id)
  /\ UNCHANGED <<currentTasks, initialTasks, aliased, subscribers, received, handles,
                 selectedTask, focusedTaskId, exportFile, now, ops, lastEvent, cascade, view>>

\* PUT /api/tasks/sync, committed
BackendSync(r) ==
  /\ \/ InFlight(r) /\ r.op \in {"replaceAllTasks", "syncTasks"}
     \/ r \in pending /\ r.op = "resetToDefault" /\ r.phase = "sent2"
  /\ db' = SyncTasksTxn(db, JsonStringify(r.tasks), 0)
  /\ pending' = Settle(r, "ok", <<>>, Undefined)
  /\ UNCHANGED <<currentTasks, initialTasks, aliased, subscribers, received, handles,
                 serial, selectedTask, focusedTaskId, exportFile, now, ops, lastEvent, cascade, view>>

\* PUT /api/tasks/sync, an upsert throws: ROLLBACK and status 500
BackendSyncRollback(r) ==
  /\ \/ InFlight(r) /\ r.op \in {"replaceAllTasks", "syncTasks"}
     \/ r \in pending /\ r.op = "resetToDefault" /\ r.phase = "sent2"
  /\ \E failAt \in 1..Len(r.tasks) : db' = SyncTasksTxn(db, JsonStringify(r.tasks), failAt)
  /\ pending' = Settle(r, "fail", <<>>, Undefined)
  /\ UNCHANGED <<currentTasks, initialTasks, aliased, subscribers, received, handles,
                 serial, selectedTask, focusedTaskId, exportFile, now, ops, lastEvent, cascade, view>>

\* DELETE /api/tasks/:id
BackendDelete(r) ==
  /\ InFlight(r) /\ r.op = "deleteTask"
  /\ db' = DeleteRow(db, r.id)
  /\ pending' = Settle(r, "ok", <<>>, Undefined)
  /\ UNCHANGED <<currentTasks, initialTasks, aliased, subscribers, received, handles,
                 serial, selectedTask, focusedTaskId, exportFile, now, ops, lastEvent, cascade, view>>

\* POST /api/tasks/reset: TRUNCATE tasks RESTART IDENTITY
BackendReset(r) ==
  /\ r \in pending /\ r.op = "resetToDefault" /\ r.phase = "sent"
  /\ db' = {}
  /\ serial' = 1
  /\ pending' = Settle(r, "ok1", <<>>, Undefined)
  /\ UNCHANGED <<currentTasks, initialTasks, aliased, subscribers, received, handles,
                 selectedTask, focusedTaskId, exportFile, now, ops, lastEvent, cascade, view>>

\* the request fails (network error, or the handler's catch answers 500):
\* dataService throws
RequestFails(r) ==
  /\ InFlight(r)
  /\ pending' = Settle(r, "fail", <<>>, Undefined)
  /\ UNCHANGED <<currentTasks, initialTasks, aliased, subscribers, received, handles,
                 db, serial, selectedTask, focusedTaskId, exportFile, now, ops, lastEvent, cascade, view>>

(***************************************************************************)
(* App.tsx: the handlers.  They run while App is mounted, i.e. subscribed. *)
(***************************************************************************)
\* App renders its controls once the first snapshot has arrived (isLoading)
Mounted == AppCb \in Range(subscribers) /\ received[AppCb].got

Ids(tasks) == {tasks[i].id : i \in 1..Len(tasks)}

\* Array.prototype.find by id: <<>> when there is none
Find(tasks, id) ==
  IF FindIndex(tasks, id) > 0 THEN <<tasks[FindIndex(tasks, id)]>> ELSE <<>>

MaxOf(S) == CHOOSE x \in S : \A y \in S : y <= x

\* names the user types into the edit modal
EditNames == {"", "Edited"}

\* handleTaskDoubleClick -> openEditModal(task)
openEditModal(task) ==
  /\ Mounted
  /\ task \in Range(appTasks)
  /\ selectedTask' = <<task>>
  /\ UNCHANGED <<currentTasks, initialTasks, aliased, subscribers, received, handles,
                 db, serial, pending, focusedTaskId, exportFile, now, ops, lastEvent, cascade, view>>

\* EditTaskModal.isValidParent, for the task in the form
isValidParent(formId, potentialParentId) == potentialParentId # formId

\* the objects EditTaskModal can pass to onSave: the selected task with a
\* new name, or with a parent picked in the select
FormData(task) ==
  {[task EXCEPT !.name = n] : n \in EditNames}
    \cup {[task EXCEPT !.parentId = p] :
            p \in {Undefined} \cup {i \in Ids(appTasks) : isValidParent(task.id, i)}}

\* handleSaveTask(updatedTask)
handleSaveTask(updatedTask) ==
  /\ Mounted /\ CanStart(1)
  /\ selectedTask # <<>>
  /\ updatedTask \in FormData(selectedTask[1])
  /\ pending' = Enqueue(pending,
        <<Req("updateTask", "handleSaveTask", "success", <<updatedTask>>, Undefined, <<>>)>>)
  /\ selectedTask' = <<>>
  /\ ops' = ops + 1
  /\ lastEvent' = Event("handleSaveTask", "handleSaveTask", TRUE, FALSE, "success", FALSE, <<>>)
  /\ UNCHANGED <<currentTasks, initialTasks, aliased, subscribers, received, handles,
                 db, serial, focusedTaskId, exportFile, now, cascade, view>>

\* toggleExpand(task), offered on rows that have children
toggleExpand(task) ==
  /\ Mounted /\ CanStart(1)
  /\ task \in Range(appTasks)
  /\ \E c \in Range(appTasks) : Truthy(c.parentId) /\ c.parentId = task.id
  /\ pending' = Enqueue(pending,
        <<Req("updateTask", "toggleExpand", "none",
              <<[task EXCEPT !.isExpanded = ~task.isExpanded]>>, Undefined, <<>>)>>)
  /\ ops' = ops + 1
  /\ lastEvent' = Event("toggleExpand", "toggleExpand", TRUE, FALSE, "none", FALSE, <<>>)
  /\ UNCHANGED <<currentTasks, initialTasks, aliased, subscribers, received, handles,
                 db, serial, selectedTask, focusedTaskId, exportFile, now, cascade, view>>

\* addTask(parentId): the task it builds
NewTask(tasks, focused, parentId, clock) ==
  LET maxOrder == IF Len(tasks) > 0 THEN MaxOf({tasks[i].order : i \in 1..Len(tasks)}) ELSE 0
      refTask  == IF Find(tasks, focused) # <<>> THEN Find(tasks, focused)
                  ELSE IF Len(tasks) > 0 THEN <<tasks[Len(tasks)]>> ELSE <<>>
  IN  [id |-> clock,
       name |-> IF Truthy(parentId) THEN "New Subtask" ELSE "New Task",
       start |-> IF refTask # <<>> THEN refTask[1].start ELSE <<2026, 1, 1>>,
       end |-> IF refTask # <<>> THEN refTask[1].end ELSE <<2026, 1, 4>>,
       type |-> "downstream", status |-> "todo", owner |-> "TBD",
       dependencies |-> <<>>, order |-> maxOrder + 1,
       parentId |-> parentId, isExpanded |-> TRUE]

\* addTask(parentId); Date.now() is read once, clock is what it returns
App_addTask(parentId, clock) ==
  /\ Mounted
  /\ parentId \in {Undefined} \cup Ids(appTasks)
  /\ clock \in now..(ClockBase + MaxClock)
  /\ now' = clock
  /\ LET newTask == NewTask(appTasks, focusedTaskId, parentId, clock)
         parent  == Find(appTasks, parentId)
         expand  == IF Truthy(parentId) /\ parent # <<>> /\ ~parent[1].isExpanded
                    THEN <<Req("updateTask", "addTask", "success",
                               <<[parent[1] EXCEPT !.isExpanded = TRUE]>>, Undefined, <<>>)>>
                    ELSE <<>>
     IN  /\ CanStart(1 + Len(expand))
         /\ pending' = Enqueue(pending,
               <<Req("addTask", "addTask", "success", <<newTask>>, Undefined, <<>>)>> \o expand)
         /\ focusedTaskId' = newTask.id
         /\ selectedTask' = <<newTask>>
  /\ ops' = ops + 1
  /\ lastEvent' = Event("App.addTask", "addTask", TRUE, FALSE, "success", FALSE, <<>>)
  /\ UNCHANGED <<currentTasks, initialTasks, aliased, subscribers, received, handles,
                 db, serial, exportFile, cascade, view>>

\* deleteTask: collect(taskId).  The recursion has no visited set; a call
\* nested deeper than the number of tasks is on a parent cycle and never
\* returns (RangeError), which is the result Overflow.
Overflow == -3

RECURSIVE collect(_, _, _)
collect(tasks, taskId, depth) ==
  IF depth > Len(tasks) THEN {Overflow}
  ELSE {taskId} \cup
       UNION {collect(tasks, tasks[i].id, depth + 1) :
                i \in {k \in 1..Len(tasks) : tasks[k].parentId = taskId}}

\* deleteTask(id), called by the edit modal's delete button (then onClose)
App_deleteTask(id) ==
  /\ Mounted
  /\ selectedTask # <<>> /\ id = selectedTask[1].id
  /\ LET idsToDelete == collect(appTasks, id, 0)
     IN  /\ Overflow \notin idsToDelete
         /\ CanStart(Cardinality(idsToDelete))
         /\ pending' = Enqueue(pending,
               [i \in 1..Cardinality(idsToDelete) |->
                  [Req("deleteTask", "deleteTask", "success", <<>>, SetToSeq(idsToDelete)[i], <<>>)
                     EXCEPT !.src = SetToSeq(idsToDelete)]])
         /\ focusedTaskId' = IF Truthy(focusedTaskId) /\ focusedTaskId \in idsToDelete
                             THEN Null ELSE focusedTaskId
         /\ cascade' = [ids |-> idsToDelete, left |-> idsToDelete]
  /\ selectedTask' = <<>>
  /\ ops' = ops + 1
  /\ lastEvent' = Event("App.deleteTask", "deleteTask", TRUE, FALSE, "success", FALSE, <<>>)
  /\ UNCHANGED <<currentTasks, initialTasks, aliased, subscribers, received, handles,
                 db, serial, exportFile, now, view>>

\* resetData, confirmed
resetData ==
  /\ Mounted /\ CanStart(1)
  /\ pending' = Enqueue(pending,
        <<Req("resetToDefault", "resetData", "info", <<>>, Undefined, <<>>)>>)
  /\ focusedTaskId' = Null
  /\ ops' = ops + 1
  /\ lastEvent' = Event("resetData", "resetData", TRUE, FALSE, "info", FALSE, <<>>)
  /\ UNCHANGED <<currentTasks, initialTasks, aliased, subscribers, received, handles,
                 db, serial, selectedTask, exportFile, now, cascade, view>>

(***************************************************************************)
(* VersionControlModal.tsx: JSON export and import.  A file is its format  *)
(* ("array": a JSON array, "object": other JSON, "garbage": not JSON) and, *)
(* for an array, its items; src remembers the collection an export was     *)
(* made from (history).                                                    *)
(***************************************************************************)
GarbageFile == [fmt |-> "garbage", items |-> <<>>, src |-> <<>>]
ObjectFile == [fmt |-> "object", items |-> <<>>, src |-> <<>>]

\* handleExportJSON
handleExportJSON ==
  /\ Mounted /\ Len(exportFile) < MaxExports
  /\ exportFile' = Append(exportFile,
        [fmt |-> "array", items |-> JsonStringify(appTasks), src |-> appTasks])
  /\ lastEvent' = Event("handleExportJSON", "handleExportJSON", TRUE, FALSE, "success", FALSE, appTasks)
  /\ UNCHANGED <<currentTasks, initialTasks, aliased, subscribers, received, handles,
                 db, serial, pending, selectedTask, focusedTaskId, now, ops, cascade, view>>

\* handleFileChange: the test the parsed file has to pass
ValidImport(file) ==
  /\ file.fmt = "array"
  /\ Len(file.items) > 0
  /\ "id" \in DOMAIN file.items[1] /\ Truthy(file.items[1].id)
  /\ "name" \in DOMAIN file.items[1] /\ file.items[1].name # ""

\* App.handleDataRestore(restoredTasks): the request it starts
handleDataRestore(restoredTasks, origin, src) ==
  [Req("replaceAllTasks", origin, "success", <<>>, Undefined, restoredTasks) EXCEPT !.src = src]

\* handleFileChange -> reader.onload, the user confirming the import
handleFileChange(file) ==
  /\ Mounted
  /\ file \in Range(exportFile) \cup {GarbageFile, ObjectFile}
  /\ LET origin == IF file.fmt = "array" THEN "ownExport" ELSE "file"
     IN  IF ValidImport(file)
         THEN /\ CanStart(1)
              /\ pending' = Enqueue(pending,
                    <<handleDataRestore(JsonParse(file.items), origin, file.src)>>)
              /\ focusedTaskId' = Null
              /\ lastEvent' = Event("handleFileChange", origin, TRUE, FALSE, "success", FALSE, file.src)
         ELSE /\ ops < MaxOps
              /\ UNCHANGED <<pending, focusedTaskId>>
              /\ lastEvent' = Event("handleFileChange", origin, FALSE, FALSE, "none", TRUE, file.src)
  /\ ops' = ops + 1
  /\ UNCHANGED <<currentTasks, initialTasks, aliased, subscribers, received, handles,
                 db, serial, selectedTask, exportFile, now, cascade, view>>

(***************************************************************************)
(* The store and the App.                                                  *)
(***************************************************************************)
ViewIdle ==
  [pc |-> "idle", tasks |-> <<>>,
   filters |-> [type |-> "all", owner |-> "all", status |-> "all"],
   sortConfig |-> [key |-> "order", direction |-> "asc"],
   result |-> <<>>, stack |-> <<>>, flatList |-> <<>>]

\* table tasks is empty, or seeded with the default tasks (seed script)
SeededRows == {RowOf(JsonStringifyTask(INITIAL_TASKS[i])) : i \in 1..Len(INITIAL_TASKS)}

Init ==
  /\ currentTasks = <<>>
  /\ initialTasks = INITIAL_TASKS
  /\ aliased = FALSE
  /\ subscribers = <<>>
  /\ received = [cb \in Callbacks |-> [got |-> FALSE, tasks |-> <<>>]]
  /\ handles = {}
  /\ db \in {{}, SeededRows}
  /\ serial = 1
  /\ pending = {}
  /\ selectedTask = <<>>
  /\ focusedTaskId = Null
  /\ exportFile = <<>>
  /\ now = ClockBase + 1
  /\ ops = 0
  /\ lastEvent = NoEvent
  /\ cascade = [ids |-> {}, left |-> {}]
  /\ view = ViewIdle

NextStore ==
  \/ \E cb \in Callbacks : subscribe(cb)
  \/ \E cb \in Callbacks : unsubscribe(cb)
  \/ \E r \in pending : getTasks_then(r)
  \/ \E r \in pending : getTasks_catch(r)
  \/ \E r \in pending : syncTasks_settled(r)
  \/ \E r \in pending : addTask_then(r)
  \/ \E r \in pending : updateTask_then(r)
  \/ \E r \in pending : deleteTask_then(r)
  \/ \E r \in pending : replaceAllTasks_then(r)
  \/ \E r \in pending : resetToDefault_sync(r)
  \/ \E r \in pending : resetToDefault_then(r)
  \/ \E r \in pending : mutation_catch(r)
  \/ \E r \in pending : BackendGet(r)
  \/ \E r \in pending : BackendPost(r)
  \/ \E r \in pending : BackendSync(r)
  \/ \E r \in pending : BackendSyncRollback(r)
  \/ \E r \in pending : BackendDelete(r)
  \/ \E r \in pending : BackendReset(r)
  \/ \E r \in pending : RequestFails(r)
  \/ \E t \in Range(appTasks) : openEditModal(t)
  \/ \E t \in UNION {FormData(selectedTask[i]) : i \in 1..Len(selectedTask)} : handleSaveTask(t)
  \/ \E t \in Range(appTasks) : toggleExpand(t)
  \/ \E p \in {Undefined} \cup Ids(appTasks), clock \in now..(ClockBase + MaxClock) :
        App_addTask(p, clock)
  \/ \E i \in 1..Len(selectedTask) : App_deleteTask(selectedTask[i].id)
  \/ resetData

Next ==
  \/ NextStore
  \/ handleExportJSON
  \/ \E f \in Range(exportFile) \cup {GarbageFile, ObjectFile} : handleFileChange(f)

Spec == Init /\ [][Next]_vars

(***************************************************************************)
(* App.tsx: processedTasks, the view-model builder.                        *)
(***************************************************************************)
\* a getTime that reads the day of the month only
getTime_dayOfMonth(date) == date[3]

\* new Date("YYYY-MM-DD").getTime(), in days since 1970-01-01
getTime(date) ==
  LET y   == IF date[2] <= 2 THEN date[1] - 1 ELSE date[1]
      era == y \div 400
      yoe == y - era * 400
      mp  == (date[2] + 9) % 12
      doy == (153 * mp + 2) \div 5 + date[3] - 1
      doe == yoe * 365 + yoe \div 4 - yoe \div 100 + doy
  IN  era * 146097 + doe - 719468

\* a filter step that keeps a task as soon as one active filter matches it
FilterTasks_any(tasks, filters) ==
  SelectSeq(tasks, LAMBDA t :
     \/ filters.type = "all" /\ filters.owner = "all" /\ filters.status = "all"
     \/ filters.type # "all" /\ t.type = filters.type
     \/ filters.owner # "all" /\ t.owner = filters.owner
     \/ filters.status # "all" /\ t.status = filters.status)

\* 1. Filter
FilterTasks(tasks, filters) ==
  LET byType   == IF filters.type # "all"
                  THEN SelectSeq(tasks, LAMBDA t : t.type = filters.type) ELSE tasks
      byOwner  == IF filters.owner # "all"
                  THEN SelectSeq(byType, LAMBDA t : t.owner = filters.owner) ELSE byType
  IN  IF filters.status # "all"
      THEN SelectSeq(byOwner, LAMBDA t : t.status = filters.status) ELSE byOwner

\* 2. childrenMap.get(id): the tasks pushed under id, in collection order
\* (<<>>: childrenMap has no entry)
Children(result, id) ==
  SelectSeq(result, LAMBDA t : Truthy(t.parentId) /\ t.parentId = id)

\* sortFn(a, b): -1, 0 or 1
sortFn(a, b, sortConfig) ==
  LET valA == IF sortConfig.key = "order" THEN a.order
              ELSE IF sortConfig.key = "start" THEN getTime(a.start) ELSE getTime(a.end)
      valB == IF sortConfig.key = "order" THEN b.order
              ELSE IF sortConfig.key = "start" THEN getTime(b.start) ELSE getTime(b.end)
  IN  IF valA < valB THEN (IF sortConfig.direction = "asc" THEN -1 ELSE 1)
      ELSE IF valA > valB THEN (IF sortConfig.direction = "asc" THEN 1 ELSE -1)
      ELSE 0

\* an insertion that puts an element before the elements it ties with
RECURSIVE Insert_unstable(_, _, _)
Insert_unstable(sorted, t, sortConfig) ==
  IF sorted = <<>> THEN <<t>>
  ELSE IF sortFn(sorted[Len(sorted)], t, sortConfig) < 0 THEN Append(sorted, t)
       ELSE Append(Insert_unstable(SubSeq(sorted, 1, Len(sorted) - 1), t, sortConfig),
                   sorted[Len(sorted)])

\* Array.prototype.sort(sortFn): stable; each element goes after the last
\* element that does not compare greater than it
RECURSIVE Insert(_, _, _)
Insert(sorted, t, sortConfig) ==
  IF sorted = <<>> THEN <<t>>
  ELSE IF sortFn(sorted[Len(sorted)], t, sortConfig) <= 0 THEN Append(sorted, t)
       ELSE Append(Insert(SubSeq(sorted, 1, Len(sorted) - 1), t, sortConfig),
                   sorted[Len(sorted)])

RECURSIVE Sort(_, _)
Sort(list, sortConfig) ==
  IF list = <<>> THEN <<>>
  ELSE Insert(Sort(SubSeq(list, 1, Len(list) - 1), sortConfig), list[Len(list)], sortConfig)

\* roots that are every task of the filtered collection
Roots_all(result) == result

\* roots whose parent is looked up in the unfiltered collection
Roots_unfiltered(result) ==
  SelectSeq(result, LAMBDA t : ~Truthy(t.parentId) \/ t.parentId \notin Ids(view.tasks))

\* roots: no parent, or the parent is not in the filtered collection
Roots(result) ==
  SelectSeq(result, LAMBDA t : ~Truthy(t.parentId) \/ t.parentId \notin Ids(result))

\* processLevel that recurses whenever children were found
ShouldRecurse_always(t, hasChildren) == hasChildren

\* processLevel: recurse only if expanded and children were found
ShouldRecurse(t, hasChildren) == hasChildren /\ t.isExpanded = TRUE

\* calls of processLevel the engine's stack holds before RangeError: more
\* than any descent through distinct tasks needs
StackLimit(tasks) == Len(tasks) + 2

\* a builder that sorts the tasks array itself before it filters
ViewStart_sortsInput ==
  /\ view.pc = "init"
  /\ LET result == FilterTasks(view.tasks, view.filters)
     IN  view' = [view EXCEPT
           !.pc = "run",
           !.tasks = Sort(view.tasks, view.sortConfig),
           !.result = result,
           !.stack = <<[list |-> Sort(Roots(result), view.sortConfig), i |-> 1, level |-> 0]>>]
  /\ UNCHANGED storeVars

\* useMemo starts: filter, childrenMap, roots, then processLevel(roots, 0)
ViewStart ==
  /\ view.pc = "init"
  /\ LET result == FilterTasks(view.tasks, view.filters)
     IN  view' = [view EXCEPT
           !.pc = "run",
           !.result = result,
           !.stack = <<[list |-> Sort(Roots(result), view.sortConfig), i |-> 1, level |-> 0]>>]
  /\ UNCHANGED storeVars

\* processLevel that passes its own level on to the children
ViewVisit_sameLevel ==
  /\ view.pc = "run"
  /\ LET top == view.stack[Len(view.stack)]
     IN  /\ top.i <= Len(top.list)
         /\ LET t           == top.list[top.i]
                hasChildren == Children(view.result, t.id) # <<>>
                row         == [task |-> t, level |-> top.level, hasChildren |-> hasChildren]
                advanced    == [view.stack EXCEPT ![Len(view.stack)].i = top.i + 1]
            IN  IF ShouldRecurse(t, hasChildren)
                THEN IF Len(view.stack) >= StackLimit(view.tasks)
                     THEN view' = [view EXCEPT !.pc = "overflow",
                                               !.flatList = Append(@, row)]
                     ELSE view' = [view EXCEPT
                            !.flatList = Append(@, row),
                            !.stack = Append(advanced,
                               [list |-> Sort(Children(view.result, t.id), view.sortConfig),
                                i |-> 1, level |-> top.level])]
                ELSE view' = [view EXCEPT !.flatList = Append(@, row), !.stack = advanced]
  /\ UNCHANGED storeVars

\* one iteration of forEach in the innermost processLevel call
ViewVisit ==
  /\ view.pc = "run"
  /\ LET top == view.stack[Len(view.stack)]
     IN  /\ top.i <= Len(top.list)
         /\ LET t           == top.list[top.i]
                hasChildren == Children(view.result, t.id) # <<>>
                row         == [task |-> t, level |-> top.level, hasChildren |-> hasChildren]
                advanced    == [view.stack EXCEPT ![Len(view.stack)].i = top.i + 1]
            IN  IF ShouldRecurse(t, hasChildren)
                THEN IF Len(view.stack) >= StackLimit(view.tasks)
                     THEN view' = [view EXCEPT !.pc = "overflow",
                                               !.flatList = Append(@, row)]
                     ELSE view' = [view EXCEPT
                            !.flatList = Append(@, row),
                            !.stack = Append(advanced,
                               [list |-> Sort(Children(view.result, t.id), view.sortConfig),
                                i |-> 1, level |-> top.level + 1])]
                ELSE view' = [view EXCEPT !.flatList = Append(@, row), !.stack = advanced]
  /\ UNCHANGED storeVars

\* forEach is through: the innermost processLevel call returns
ViewReturn ==
  /\ view.pc = "run"
  /\ LET top == view.stack[Len(view.stack)]
     IN  /\ top.i > Len(top.list)
         /\ view' = [view EXCEPT
               !.stack = SubSeq(@, 1, Len(@) - 1),
               !.pc = IF Len(view.stack) = 1 THEN "done" ELSE "run"]
  /\ UNCHANGED storeVars

(***************************************************************************)
(* The view-model builder on its own: the inputs are MaxViewTasks tasks    *)
(* with ids 1..MaxViewTasks in collection order, any parent links (none,   *)
(* any id of the collection, or the id MaxViewTasks + 1 of no task), at    *)
(* most one collapsed task, at most one task of another type, the type     *)
(* filter on or off, and both sort directions of the default sort.         *)
(***************************************************************************)
ViewIds == 1..MaxViewTasks

ViewTask(i, parentId, collapsed, cutover) ==
  [id |-> i, name |-> "T", start |-> <<2025, 3, 17>>, end |-> <<2025, 3, 23>>,
   type |-> IF i \in cutover THEN "cutover" ELSE "prep",
   status |-> "todo", owner |-> "PMO", dependencies |-> <<>>, order |-> i,
   parentId |-> parentId, isExpanded |-> i \notin collapsed]

AtMostOne == {{}} \cup {{i} : i \in ViewIds}

ViewInputs ==
  {[pc |-> "init",
    tasks |-> [i \in ViewIds |-> ViewTask(i, parents[i], collapsed, cutover)],
    filters |-> [type |-> ftype, owner |-> "all", status |-> "all"],
    sortConfig |-> [key |-> "order", direction |-> dir],
    result |-> <<>>, stack |-> <<>>, flatList |-> <<>>] :
     parents \in [ViewIds -> {Undefined} \cup 1..(MaxViewTasks + 1)],
     collapsed \in AtMostOne, cutover \in AtMostOne,
     ftype \in {"all", "prep"}, dir \in {"asc", "desc"}}

InitView ==
  /\ currentTasks = <<>>
  /\ initialTasks = INITIAL_TASKS
  /\ aliased = FALSE
  /\ subscribers = <<>>
  /\ received = [cb \in Callbacks |-> [got |-> FALSE, tasks |-> <<>>]]
  /\ handles = {}
  /\ db = {}
  /\ serial = 1
  /\ pending = {}
  /\ selectedTask = <<>>
  /\ focusedTaskId = Null
  /\ exportFile = <<>>
  /\ now = ClockBase + 1
  /\ ops = 0
  /\ lastEvent = NoEvent
  /\ cascade = [ids |-> {}, left |-> {}]
  /\ view \in ViewInputs

NextView ==
  \/ ViewStart
  \/ ViewVisit
  \/ ViewReturn

SpecView == InitView /\ [][NextView]_vars

(***************************************************************************)
(* The view-model builder under the three filters: every task has one of   *)
(* two types, owners and statuses, each filter is off or asks for the      *)
(* first of the two, and the tasks are all roots or form one chain.        *)
(***************************************************************************)
\* the store before any call
StoreAtLoad ==
  /\ currentTasks = <<>>
  /\ initialTasks = INITIAL_TASKS
  /\ aliased = FALSE
  /\ subscribers = <<>>
  /\ received = [cb \in Callbacks |-> [got |-> FALSE, tasks |-> <<>>]]
  /\ handles = {}
  /\ db = {}
  /\ serial = 1
  /\ pending = {}
  /\ selectedTask = <<>>
  /\ exportFile = <<>>
  /\ now = ClockBase + 1
  /\ ops = 0
  /\ lastEvent = NoEvent
  /\ cascade = [ids |-> {}, left |-> {}]

TaskAttrs == [type : {"prep", "cutover"}, owner : {"PMO", "TBD"}, status : {"todo", "done"}]

FilterValues == [type : {"all", "prep"}, owner : {"all", "PMO"}, status : {"all", "todo"}]

ChainParents == {[i \in ViewIds |-> Undefined],
                 [i \in ViewIds |-> IF i = 1 THEN Undefined ELSE i - 1]}

FilterInputs ==
  {[pc |-> "init",
    tasks |-> [i \in ViewIds |->
                 [ViewTask(i, parents[i], {}, {}) EXCEPT
                    !.type = attrs[i].type, !.owner = attrs[i].owner,
                    !.status = attrs[i].status]],
    filters |-> f,
    sortConfig |-> [key |-> "order", direction |-> "asc"],
    result |-> <<>>, stack |-> <<>>, flatList |-> <<>>] :
     parents \in ChainParents, attrs \in [ViewIds -> TaskAttrs], f \in FilterValues}

InitFilter ==
  /\ StoreAtLoad
  /\ focusedTaskId = Null
  /\ view \in FilterInputs

SpecFilter == InitFilter /\ [][NextView]_vars

(***************************************************************************)
(* The view-model builder under the three sort keys and both directions:   *)
(* every task has one of two order values, start dates and end dates, and  *)
(* the tasks are all roots or all but the first are children of the first. *)
(* App's focused row is any: it is no input of the builder.                *)
(***************************************************************************)
SortKeys == [order : {1, 2},
             start : {<<2025, 3, 31>>, <<2025, 4, 6>>},
             end   : {<<2025, 4, 6>>, <<2026, 1, 2>>}]

SortConfigs == [key : {"order", "start", "end"}, direction : {"asc", "desc"}]

SiblingParents == {[i \in ViewIds |-> Undefined],
                   [i \in ViewIds |-> IF i = 1 THEN Undefined ELSE 1]}

SortInputs ==
  {[pc |-> "init",
    tasks |-> [i \in ViewIds |->
                 [ViewTask(i, parents[i], {}, {}) EXCEPT
                    !.order = keys[i].order, !.start = keys[i].start, !.end = keys[i].end]],
    filters |-> [type |-> "all", owner |-> "all", status |-> "all"],
    sortConfig |-> c,
    result |-> <<>>, stack |-> <<>>, flatList |-> <<>>] :
     parents \in SiblingParents, keys \in [ViewIds -> SortKeys], c \in SortConfigs}

InitSort ==
  /\ StoreAtLoad
  /\ focusedTaskId \in {Null, 1}
  /\ view \in SortInputs

SpecSort == InitSort /\ [][NextView]_vars

(***************************************************************************)
(* App.tsx: dateRange, the days of the timeline.  A Date is its time value *)
(* in hours since 1970-01-01T00:00Z.  new Date("YYYY-MM-DD") is midnight   *)
(* UTC of that day; getDate and setDate work on the fields of the local    *)
(* time of the browser's time zone.  A zone has one change of its offset   *)
(* from UTC (none when before = after), at the UTC hour at.                *)
(***************************************************************************)
HoursPerDay == 24

\* new Date(str): the time value of a date string
DateOf(date) == getTime(date) * HoursPerDay

Oct26 == DateOf(<<2025, 10, 26>>)

\* UTC, Asia/Shanghai, America/Bogota, and Europe/Berlin, where summer time
\* ends on 2025-10-26 at 01:00 UTC
Zones ==
  {[name |-> "UTC", before |-> 0, after |-> 0, at |-> Oct26],
   [name |-> "Asia/Shanghai", before |-> 8, after |-> 8, at |-> Oct26],
   [name |-> "America/Bogota", before |-> -5, after |-> -5, at |-> Oct26],
   [name |-> "Europe/Berlin", before |-> 2, after |-> 1, at |-> Oct26 + 1]}

\* LocalTime(t): the local time of time value t
LocalTime(zone, t) == t + (IF t < zone.at THEN zone.before ELSE zone.after)

\* UTC(local): the time value of a local time; a local time that occurs
\* twice or not at all is read with the offset before the change
UTCOf(zone, local) ==
  IF local - zone.before < zone.at THEN local - zone.before
  ELSE IF local - zone.after >= zone.at THEN local - zone.after
  ELSE local - zone.before

\* d.setDate(d.getDate() + n): n days later at the same local time of day
AddDays(zone, t, n) == UTCOf(zone, LocalTime(zone, t) + n * HoursPerDay)

\* tasks.flatMap(t => [new Date(t.start), new Date(t.end)]).map(getTime)
TaskDates(tasks) ==
  {DateOf(tasks[i].start) : i \in 1..Len(tasks)} \cup {DateOf(tasks[i].end) : i \in 1..Len(tasks)}

MinOf(S) == CHOOSE x \in S : \A y \in S : x <= y

\* useMemo starts: min and max with their padding (today and today + 14
\* for no tasks), curr = new Date(min)
RangeStart ==
  /\ view.pc = "init"
  /\ LET min == IF view.tasks = <<>> THEN view.today
                ELSE AddDays(view.zone, MinOf(TaskDates(view.tasks)), -3)
         max == IF view.tasks = <<>> THEN AddDays(view.zone, view.today, 14)
                ELSE AddDays(view.zone, MaxOf(TaskDates(view.tasks)), 5)
     IN  view' = [view EXCEPT !.pc = "loop", !.max = max, !.curr = min]
  /\ UNCHANGED storeVars

\* while (curr <= max): range.push(new Date(curr)); curr.setDate(curr.getDate() + 1)
RangePush ==
  /\ view.pc = "loop"
  /\ view.curr <= view.max
  /\ view' = [view EXCEPT !.range = Append(@, view.curr),
                          !.curr = AddDays(view.zone, view.curr, 1)]
  /\ UNCHANGED storeVars

\* the loop ends: return range
RangeReturn ==
  /\ view.pc = "loop"
  /\ view.curr > view.max
  /\ view' = [view EXCEPT !.pc = "done"]
  /\ UNCHANGED storeVars

\* the inputs: no task or MaxRangeTasks tasks whose start and end are days
\* around the end of summer time, any zone, filters and sort direction
RangeDays == {<<2025, 10, 20>>, <<2025, 10, 24>>, <<2025, 10, 27>>}

RangeInputs ==
  {[pc |-> "init",
    tasks |-> [i \in 1..n |-> [ViewTask(i, Undefined, {}, {}) EXCEPT
                                 !.start = dates[i][1], !.end = dates[i][2]]],
    filters |-> [type |-> ftype, owner |-> "all", status |-> "all"],
    sortConfig |-> [key |-> "order", direction |-> dir],
    zone |-> zone, today |-> DateOf(<<2025, 10, 20>>) + 9,
    max |-> 0, curr |-> 0, range |-> <<>>] :
     n \in {0, MaxRangeTasks},
     dates \in [1..MaxRangeTasks -> RangeDays \X RangeDays],
     zone \in Zones, ftype \in {"all", "prep"}, dir \in {"asc", "desc"}}

InitRange ==
  /\ StoreAtLoad
  /\ focusedTaskId = Null
  /\ view \in RangeInputs

NextRange ==
  \/ RangeStart
  \/ RangePush
  \/ RangeReturn

SpecRange == InitRange /\ [][NextRange]_vars

(***************************************************************************)
(* Properties of the store and the App (specification Spec).               *)
(***************************************************************************)
SubscribersHold(cur) ==
  \A cb \in Range(subscribers) : received[cb] = [got |-> TRUE, tasks |-> cur]

\* C1: once every store.deleteTask call of the last App.deleteTask has
\* completed successfully, the store holds none of the deleted tasks and no
\* task whose parentId is a deleted id.
C1_CascadeDelete ==
  (lastEvent.kind = "deleteTask" /\ lastEvent.ok /\ cascade.ids # {} /\ cascade.left = {})
    => \A t \in Range(currentTasks) : t.id \notin cascade.ids /\ t.parentId \notin cascade.ids

\* C2, as claimed: from subscription on, every subscribed callback has been
\* invoked and holds the current snapshot.
C2_ImmediateSnapshot == SubscribersHold(currentTasks)

FetchSettles ==
  \E r \in pending : r.op = "getTasks" /\ r.phase \in {"ok", "fail"} /\ r \notin pending'

\* C2, amended: subscribe registers the callback, starts a fetch and returns
\* the unsubscribe function without invoking the callback; every subscribed
\* callback is invoked with the full current snapshot when a fetch settles
\* and after every change of the collection.
C2_SnapshotOnFetchAndChange ==
  [][/\ (Len(subscribers') > Len(subscribers)) =>
          /\ received' = received
          /\ \E r \in pending' \ pending : r.op = "getTasks" /\ r.phase = "sent"
          /\ subscribers'[Len(subscribers')] \in handles'
     /\ (FetchSettles \/ currentTasks' # currentTasks) =>
          \A cb \in Range(subscribers') :
             received'[cb] = [got |-> TRUE, tasks |-> currentTasks']]_vars

C2_Witness ==
  /\ lastEvent.kind = "getTasks"
  /\ subscribers # <<>>
  /\ currentTasks # <<>>
  /\ SubscribersHold(currentTasks)

\* C3: a mutation whose backend requests succeeded has called notify() and
\* every subscribed callback holds the collection as it is after it.
C3_MutationNotifies ==
  (lastEvent.kind \in Mutations /\ lastEvent.ok)
    => lastEvent.notified /\ SubscribersHold(currentTasks)

\* C4: the step that completes a mutation whose backend request failed
\* changes neither the in-memory collection nor what any callback received,
\* and does not call notify().
C4_FailedMutationChangesNothing ==
  [][\A r \in pending :
       (r.op \in Mutations /\ r.phase = "fail" /\ r \notin pending')
         => /\ currentTasks' = currentTasks
            /\ initialTasks' = initialTasks
            /\ received' = received
            /\ ~lastEvent'.notified]_vars

C4_Witness ==
  /\ lastEvent.kind \in Mutations
  /\ ~lastEvent.ok
  /\ currentTasks # <<>>
  /\ subscribers # <<>>

\* C5: the step that completes a failed task fetch leaves the in-memory
\* collection as it was.
C5_FailedFetchChangesNothing ==
  [][\A r \in pending :
       (r.op = "getTasks" /\ r.phase = "fail" /\ r \notin pending')
         => currentTasks' = currentTasks]_vars

\* C6: every failed backend request and every rejected import file has shown
\* an error notification.
C6_ErrorsSurfaced ==
  (lastEvent.kind \in Mutations \cup {"getTasks", "syncTasks", "handleFileChange"}
     /\ ~lastEvent.ok)
    => lastEvent.errorToast

\* C7: importing a file written by handleExportJSON is accepted, and once
\* its replaceAllTasks has completed the store holds the exported collection.
C7_RoundTrip ==
  /\ (lastEvent.kind = "handleFileChange" /\ lastEvent.origin = "ownExport") => lastEvent.ok
  /\ (lastEvent.kind = "replaceAllTasks" /\ lastEvent.origin = "ownExport" /\ lastEvent.ok)
       => currentTasks = lastEvent.src

(***************************************************************************)
(* Properties of the view-model builder (specification SpecView).          *)
(***************************************************************************)
Shown == FilterTasks(view.tasks, view.filters)

ShownTask(id) == CHOOSE t \in Range(Shown) : t.id = id

HasShownParent(t) == Truthy(t.parentId) /\ t.parentId \in Ids(Shown)

RECURSIVE AncestorsWithin(_, _)
AncestorsWithin(t, fuel) ==
  IF fuel = 0 \/ ~HasShownParent(t) THEN {}
  ELSE {t.parentId} \cup AncestorsWithin(ShownTask(t.parentId), fuel - 1)

\* ids of the proper ancestors of t through parentId links of shown tasks
AncestorIds(t) == AncestorsWithin(t, Len(Shown))

OnCycle(t) == t.id \in AncestorIds(t)

HasCycle == \E t \in Range(Shown) : OnCycle(t)

Rows == 1..Len(view.flatList)

\* C8, as claimed: with a parent cycle among the filtered tasks the flatten
\* never returns.
C8_CycleNeverReturns == HasCycle => view.pc # "done"

\* C8, amended: with a parent cycle among the filtered tasks the flatten
\* never enters the cycle: the recursion stays within the depth of the
\* collection, every task is emitted at most once, and no task that is on a
\* cycle or below one is emitted.
C8_CycleIsNeverEntered ==
  HasCycle =>
    /\ view.pc # "overflow"
    /\ Len(view.stack) <= Len(Shown) + 1
    /\ Len(view.flatList) <= Len(Shown)
    /\ \A i, j \in Rows : view.flatList[i].task.id = view.flatList[j].task.id => i = j
    /\ \A i \in Rows :
         LET t == view.flatList[i].task
         IN  \A a \in {t.id} \cup AncestorIds(t) : ~OnCycle(ShownTask(a))

C8_Witness ==
  /\ view.pc = "done"
  /\ HasCycle
  /\ view.flatList # <<>>
  /\ Len(view.flatList) < Len(Shown)

\* C9: when the flatten is done, a filtered task is in the output at level 0
\* iff its parentId is absent or is the id of no filtered task.
C9_RootDetection ==
  view.pc = "done" =>
    \A t \in Range(Shown) :
      (\E i \in Rows : view.flatList[i].task = t /\ view.flatList[i].level = 0)
        <=> ~HasShownParent(t)

\* a level-0 row whose parentId is the id of no task, and one whose parent
\* the filters removed
C9_Witness ==
  /\ view.pc = "done"
  /\ \E i \in Rows :
       LET r == view.flatList[i]
       IN  r.level = 0 /\ Truthy(r.task.parentId) /\ r.task.parentId \notin Ids(view.tasks)
  /\ \E i \in Rows :
       LET r == view.flatList[i]
       IN  r.level = 0 /\ r.task.parentId \in Ids(view.tasks) \ Ids(Shown)

RECURSIVE VisibleWithin(_, _)
VisibleWithin(t, fuel) ==
  IF fuel = 0 \/ t.isExpanded # TRUE THEN {}
  ELSE LET kids == {c \in Range(Shown) : Truthy(c.parentId) /\ c.parentId = t.id}
       IN  kids \cup UNION {VisibleWithin(c, fuel - 1) : c \in kids}

\* the children of t if t is expanded and, recursively, what is visible below them
VisibleBelow(t) == VisibleWithin(t, Len(Shown))

\* C10: when the flatten is done, no row is a descendant of an emitted
\* collapsed task; the rows right below an emitted expanded task P are
\* exactly its children and what is visible below them, each deeper than P,
\* the children one level deeper, and no other row is a descendant of P.
C10_ExpansionGating ==
  view.pc = "done" =>
    \A i \in Rows :
      LET P     == view.flatList[i]
          below == VisibleBelow(P.task)
          span  == (i + 1)..(i + Cardinality(below))
      IN  /\ span \subseteq Rows
          /\ {view.flatList[j].task : j \in span} = below
          /\ \A j \in span :
               /\ view.flatList[j].level > P.level
               /\ (view.flatList[j].task.parentId = P.task.id)
                    <=> (view.flatList[j].level = P.level + 1)
          /\ \A j \in Rows \ span : P.task.id \notin AncestorIds(view.flatList[j].task)

\* an expanded parent whose child is shown and is itself a collapsed parent
C10_Witness ==
  /\ view.pc = "done"
  /\ \E i, j \in Rows :
       LET P == view.flatList[i]
           Q == view.flatList[j]
       IN  /\ P.task.isExpanded = TRUE
           /\ Q.task.parentId = P.task.id
           /\ Q.task.isExpanded = FALSE
           /\ \E c \in Range(Shown) : c.parentId = Q.task.id

\* C11: a row whose task has the task of another row as its parent is one
\* level below that row, and the row of a task that has no parent among the
\* filtered tasks is at level 0.
C11_DepthMonotone ==
  \A i, j \in Rows :
    LET p == view.flatList[i]
        c == view.flatList[j]
    IN  /\ (Truthy(c.task.parentId) /\ c.task.parentId = p.task.id) => c.level = p.level + 1
        /\ ~HasShownParent(p.task) => p.level = 0

\* a row at level 2 below its parent at level 1 below a root
C11_Witness ==
  /\ view.pc = "done"
  /\ \E i, j, k \in Rows :
       /\ view.flatList[i].level = 0
       /\ view.flatList[j].level = 1
       /\ view.flatList[k].level = 2
       /\ view.flatList[j].task.parentId = view.flatList[i].task.id
       /\ view.flatList[k].task.parentId = view.flatList[j].task.id

(***************************************************************************)
(* Properties of the filter step (specification SpecFilter).               *)
(***************************************************************************)
\* t passes each of the three filters
Retained(t) ==
  /\ view.filters.type = "all" \/ t.type = view.filters.type
  /\ view.filters.owner = "all" \/ t.owner = view.filters.owner
  /\ view.filters.status = "all" \/ t.status = view.filters.status

\* C12: once the filter step has run, a task of the input is in its result
\* iff it passes each of the three filters, and every row of the output is a
\* task of the input that passes all three.
C12_FilterConjunction ==
  /\ view.pc \in {"run", "done", "overflow"} =>
       /\ \A t \in Range(view.tasks) : (t \in Range(view.result)) <=> Retained(t)
       /\ Len(view.result) <= Len(view.tasks)
  /\ \A i \in Rows :
       view.flatList[i].task \in Range(view.tasks) /\ Retained(view.flatList[i].task)

\* two filters are on, a task that passes one of them and fails the other
\* is not in the output, and a task that passes both is
C12_Witness ==
  /\ view.pc = "done"
  /\ view.filters.type # "all" /\ view.filters.owner # "all"
  /\ \E t \in Range(view.tasks) :
       /\ t.type = view.filters.type /\ t.owner # view.filters.owner
       /\ \A i \in Rows : view.flatList[i].task # t
  /\ \E i \in Rows : view.flatList[i].task.type = view.filters.type

(***************************************************************************)
(* Properties of the sort (specification SpecSort).                        *)
(***************************************************************************)
\* two roots, or two children of the same parent
Siblings(a, b) ==
  \/ ~HasShownParent(a) /\ ~HasShownParent(b)
  \/ HasShownParent(a) /\ HasShownParent(b) /\ a.parentId = b.parentId

\* C13: sorted by order, two sibling rows whose tasks have the same order
\* value come in the order their tasks have in the input collection, in
\* both directions.
C13_StableUnderTies ==
  view.sortConfig.key = "order" =>
    \A i, j \in Rows :
      LET a == view.flatList[i].task
          b == view.flatList[j].task
      IN  (Siblings(a, b) /\ a.order = b.order
             /\ FindIndex(view.tasks, a.id) < FindIndex(view.tasks, b.id)) => i < j

\* descending: a sibling of greater order first, then two that tie, the
\* one that is first in the input first
C13_Witness ==
  /\ view.pc = "done"
  /\ view.sortConfig = [key |-> "order", direction |-> "desc"]
  /\ \E i, j, k \in Rows :
       LET a == view.flatList[i].task
           b == view.flatList[j].task
           c == view.flatList[k].task
       IN  /\ i < j /\ j < k
           /\ Siblings(a, b) /\ Siblings(b, c)
           /\ a.order > b.order /\ b.order = c.order
           /\ FindIndex(view.tasks, a.id) > FindIndex(view.tasks, c.id)
           /\ FindIndex(view.tasks, b.id) < FindIndex(view.tasks, c.id)

\* date d is an earlier calendar day than date e, or the same
NotAfter(d, e) ==
  \/ d[1] < e[1]
  \/ d[1] = e[1] /\ d[2] < e[2]
  \/ d[1] = e[1] /\ d[2] = e[2] /\ d[3] <= e[3]

\* C14: sorted by start or end, sibling rows come in chronological order of
\* that date when ascending and in reverse chronological order when
\* descending.
C14_DateComparator ==
  view.sortConfig.key \in {"start", "end"} =>
    \A i, j \in Rows :
      LET a == view.flatList[i].task
          b == view.flatList[j].task
          da == IF view.sortConfig.key = "start" THEN a.start ELSE a.end
          db2 == IF view.sortConfig.key = "start" THEN b.start ELSE b.end
      IN  (Siblings(a, b) /\ i < j) =>
            IF view.sortConfig.direction = "asc" THEN NotAfter(da, db2) ELSE NotAfter(db2, da)

\* ascending by start: 2025-03-31 is emitted before 2025-04-06 although its
\* task comes later in the input
C14_Witness ==
  /\ view.pc = "done"
  /\ view.sortConfig = [key |-> "start", direction |-> "asc"]
  /\ \E i, j \in Rows :
       LET a == view.flatList[i].task
           b == view.flatList[j].task
       IN  /\ i < j /\ Siblings(a, b)
           /\ a.start = <<2025, 3, 31>> /\ b.start = <<2025, 4, 6>>
           /\ FindIndex(view.tasks, a.id) > FindIndex(view.tasks, b.id)

(***************************************************************************)
(* The builder as a function of its three inputs.                          *)
(***************************************************************************)
RECURSIVE FlattenLevel(_, _, _, _, _)
FlattenLevel(list, level, result, sortConfig, fuel) ==
  IF list = <<>> \/ fuel = 0 THEN <<>>
  ELSE LET t    == Head(list)
           kids == Children(result, t.id)
           row  == [task |-> t, level |-> level, hasChildren |-> kids # <<>>]
       IN  <<row>>
             \o (IF kids # <<>> /\ t.isExpanded = TRUE
                 THEN FlattenLevel(Sort(kids, sortConfig), level + 1, result, sortConfig, fuel - 1)
                 ELSE <<>>)
             \o FlattenLevel(Tail(list), level, result, sortConfig, fuel)

Flatten(tasks, filters, sortConfig) ==
  LET result == FilterTasks(tasks, filters)
  IN  FlattenLevel(Sort(Roots(result), sortConfig), 0, result, sortConfig, Len(tasks) + 1)

\* C15: no step of the builder changes the tasks array, the filters or the
\* sort configuration it was given, and the output it returns is the value
\* of one function of these three, whatever else the state of App is.
C15_PureFunction ==
  [][/\ view'.tasks = view.tasks
     /\ view'.filters = view.filters
     /\ view'.sortConfig = view.sortConfig
     /\ view'.pc = "done" =>
          view'.flatList = Flatten(view'.tasks, view'.filters, view'.sortConfig)]_vars

\* an output whose order differs from the order of the input array, with a
\* row focused in App
C15_Witness ==
  /\ view.pc = "done"
  /\ focusedTaskId # Null
  /\ Len(view.flatList) = Len(view.tasks)
  /\ \E i \in Rows : view.flatList[i].task # view.tasks[i]

(***************************************************************************)
(* Further properties of the store (specification Spec).                   *)
(***************************************************************************)
\* C16: the ids of the store's in-memory collection are pairwise distinct.
C16_UniqueIds ==
  \A i, j \in 1..Len(currentTasks) : currentTasks[i].id = currentTasks[j].id => i = j

\* C17: when an updateTask call that was made while another updateTask call
\* for the same id was in flight has completed successfully, and no
\* updateTask call for that id is left, the task of that id in the store's
\* collection is the row the backend holds.
C17_LastWriteWins ==
  (/\ lastEvent.kind = "updateTask" /\ lastEvent.ok /\ lastEvent.src # <<>>
   /\ ~\E q \in pending : q.op = "updateTask" /\ q.task[1].id = lastEvent.src[1])
    => \A t \in Range(currentTasks) :
         t.id = lastEvent.src[1] => RowOf(JsonStringifyTask(t)) \in db

\* C18: the step that completes a successful updateTask(t) with t.id in the
\* collection puts t at the position of the first task of that id and
\* leaves the length and every other element as they were.
C18_FullReplace ==
  [][\A r \in pending :
       (/\ r.op = "updateTask" /\ r.phase = "ok" /\ r \notin pending'
        /\ FindIndex(currentTasks, r.task[1].id) > 0)
         => LET k == FindIndex(currentTasks, r.task[1].id)
            IN  /\ Len(currentTasks') = Len(currentTasks)
                /\ currentTasks'[k] = r.task[1]
                /\ \A i \in 1..Len(currentTasks) : i # k => currentTasks'[i] = currentTasks[i]]_vars

\* the first of two tasks was replaced by its edited copy
C18_Witness ==
  /\ lastEvent.kind = "updateTask" /\ lastEvent.ok /\ lastEvent.notified
  /\ Len(currentTasks) = 2
  /\ currentTasks[1].name = "Edited"
  /\ currentTasks[1].id # currentTasks[2].id

\* a request whose PUT /api/tasks/sync the backend has not handled yet
SyncAwaiting(r) ==
  \/ InFlight(r) /\ r.op \in {"replaceAllTasks", "syncTasks"}
  \/ r.op = "resetToDefault" /\ r.phase = "sent2"

\* C19: the step in which PUT /api/tasks/sync answers success leaves, for
\* every id of the array, the row of the array's (last) task of that id in
\* the table and every row of another id as it was; the step in which it
\* answers an error leaves the table as it was.
C19_SyncAtomic ==
  [][\A r \in pending :
       (SyncAwaiting(r) /\ r \notin pending') =>
         LET bodies == JsonStringify(r.tasks)
             n      == Len(bodies)
         IN  /\ [r EXCEPT !.phase = "ok"] \in pending' \ pending =>
                  /\ \A i \in 1..n :
                       (\A j \in (i + 1)..n : bodies[j].id # bodies[i].id)
                         => RowOf(bodies[i]) \in db'
                  /\ \A row \in db' :
                       (\A i \in 1..n : bodies[i].id # row.id) => row \in db
                  /\ \A row \in db :
                       (\A i \in 1..n : bodies[i].id # row.id) => row \in db'
             /\ [r EXCEPT !.phase = "fail"] \in pending' \ pending => db' = db]_vars

\* an error response to the sync of two tasks, the first of which the table
\* does not hold
C19_Witness ==
  \E r \in pending :
    /\ r.op = "replaceAllTasks" /\ r.phase = "fail"
    /\ Len(r.tasks) = 2
    /\ RowOf(JsonStringifyTask(r.tasks[1])) \notin db
    /\ RowOf(JsonStringifyTask(r.tasks[2])) \in db

(***************************************************************************)
(* Properties of dateRange (specification SpecRange).                      *)
(***************************************************************************)
\* the calendar days (days since 1970-01-01) of the range, read in UTC and
\* read in local time
UtcDays == [i \in 1..Len(view.range) |-> view.range[i] \div HoursPerDay]

LocalDays == [i \in 1..Len(view.range) |-> LocalTime(view.zone, view.range[i]) \div HoursPerDay]

\* the days from 3 before the earliest to 5 after the latest date of tasks
PaddedDays(tasks) ==
  LET first == MinOf(TaskDates(tasks)) \div HoursPerDay - 3
      last  == MaxOf(TaskDates(tasks)) \div HoursPerDay + 5
  IN  [i \in 1..(last - first + 1) |-> first + i - 1]

\* C20: for a non-empty collection the range returned is, as days of UTC or
\* as days of local time, the list of consecutive days from 3 days before
\* the earliest start/end date to 5 days after the latest; this list is a
\* function of tasks alone.
C20_DateRange ==
  (view.pc = "done" /\ view.tasks # <<>>) =>
    (UtcDays = PaddedDays(view.tasks) \/ LocalDays = PaddedDays(view.tasks))

(***************************************************************************)
(* ai.ts: parseTasks.  A string is the sequence of its characters.  A JSON *)
(* text is the value JSON.parse gives for it: "invalid" is a text that is  *)
(* not JSON, an array carries its items, and an item is a number, null or  *)
(* an object given by the keys it has and their values.                    *)
(***************************************************************************)
MaxAITasks == 2       \* items of the array in an AI response

Digit == <<"0", "1", "2", "3", "4", "5", "6", "7", "8", "9">>

\* String(n) of a number n >= 0
RECURSIVE NumberToString(_)
NumberToString(n) == IF n < 10 THEN <<Digit[n + 1]>> ELSE NumberToString(n \div 10) \o <<Digit[(n % 10) + 1]>>

\* s.padStart(len, ch)
RECURSIVE padStart(_, _, _)
padStart(s, len, ch) == IF Len(s) >= len THEN s ELSE padStart(<<ch>> \o s, len, ch)

\* /^\d{4}-\d{2}-\d{2}$/.test(t[key]): a missing key reads as undefined,
\* which is tested as the string "undefined"
dateRegex_test(t, key) ==
  /\ key \in DOMAIN t
  /\ Len(t[key]) = 10
  /\ \A i \in {1, 2, 3, 4, 6, 7, 9, 10} : t[key][i] \in Range(Digit)
  /\ t[key][5] = "-"
  /\ t[key][8] = "-"

\* today.getFullYear() + '-' + String(today.getMonth() + 1).padStart(2, '0')
\*   + '-' + String(today.getDate()).padStart(2, '0')
fallbackDate(today) ==
  NumberToString(today.year) \o <<"-">> \o padStart(NumberToString(today.month + 1), 2, "0")
    \o <<"-">> \o padStart(NumberToString(today.date), 2, "0")

\* {...t, start: .., end: .., dependencies: t.dependencies || []}: the
\* spread of a number has no key; a list is truthy even when it is empty
NormalizeTask(item, today) ==
  LET t == IF item.kind = "object" THEN item.fields ELSE <<>>
  IN  [k \in DOMAIN t \cup {"start", "end", "dependencies"} |->
         CASE k = "start" -> IF dateRegex_test(t, "start") THEN t.start ELSE fallbackDate(today)
           [] k = "end" -> IF dateRegex_test(t, "end") THEN t.end ELSE fallbackDate(today)
           [] k = "dependencies" -> IF "dependencies" \in DOMAIN t THEN t.dependencies ELSE <<>>
           [] OTHER -> t[k]]

\* JSON.parse throws on a text that is not JSON, tasks.map is not a function
\* unless tasks is an array, and t.start throws when t is null
parseTasksThrows(text) ==
  IF text.kind # "array" THEN TRUE
  ELSE \E i \in 1..Len(text.items) : text.items[i].kind = "null"

parseTasks(text, today) ==
  [i \in 1..Len(text.items) |-> NormalizeTask(text.items[i], today)]

\* return tasks.map(...)
parseTasks_return ==
  /\ view.pc = "init"
  /\ ~parseTasksThrows(view.text)
  /\ view' = [view EXCEPT !.pc = "returned", !.tasks = parseTasks(view.text, view.today)]
  /\ UNCHANGED storeVars

\* catch (e): throw new Error("Failed to parse AI plan")
parseTasks_catch ==
  /\ view.pc = "init"
  /\ parseTasksThrows(view.text)
  /\ view' = [view EXCEPT !.pc = "thrown"]
  /\ UNCHANGED storeVars

\* the inputs: date strings that match the pattern and that do not
DateStrings ==
  {<<"2", "0", "2", "5", "-", "0", "3", "-", "1", "7">>,
   <<"2", "0", "2", "5", "-", "3", "-", "1", "7">>,
   <<"0", "3", "/", "1", "7", "/", "2", "0", "2", "5">>}

AIObject(keys, start, end, dependencies) ==
  [kind |-> "object",
   fields |-> [k \in {"id", "name"} \cup keys |->
                 CASE k = "id" -> 1
                   [] k = "name" -> "Plan"
                   [] k = "start" -> start
                   [] k = "end" -> end
                   [] k = "dependencies" -> dependencies]]

AIItems ==
  {AIObject(keys, start, end, dependencies) :
     keys \in SUBSET {"start", "end", "dependencies"},
     start \in DateStrings, end \in DateStrings, dependencies \in {<<>>, <<1>>}}
  \cup {[kind |-> "number"], [kind |-> "null"]}

Todays == {[year |-> 2025, month |-> 0, date |-> 5], [year |-> 2025, month |-> 11, date |-> 31]}

ParseInputs ==
  {[pc |-> "init", text |-> text, today |-> today, tasks |-> <<>>] :
     text \in {[kind |-> "invalid"], [kind |-> "null"], [kind |-> "object"]}
              \cup {[kind |-> "array", items |-> items] :
                      items \in UNION {[1..n -> AIItems] : n \in 0..MaxAITasks}},
     today \in Todays}

InitParse ==
  /\ StoreAtLoad
  /\ focusedTaskId = Null
  /\ view \in ParseInputs

NextParse ==
  \/ parseTasks_return
  \/ parseTasks_catch

SpecParse == InitParse /\ [][NextParse]_vars

(***************************************************************************)
(* Properties of parseTasks (specification SpecParse).                     *)
(***************************************************************************)
ArrayOfObjects(text) ==
  text.kind = "array" /\ \A i \in 1..Len(text.items) : text.items[i].kind = "object"

\* the task made of object t: its dates kept when they match the pattern
\* and today's date otherwise, dependencies defaulted, the rest as in t
Normalized(t, today, out) ==
  /\ DOMAIN out = DOMAIN t \cup {"start", "end", "dependencies"}
  /\ out.start = IF dateRegex_test(t, "start") THEN t.start ELSE fallbackDate(today)
  /\ out.end = IF dateRegex_test(t, "end") THEN t.end ELSE fallbackDate(today)
  /\ out.dependencies = IF "dependencies" \in DOMAIN t THEN t.dependencies ELSE <<>>
  /\ \A k \in DOMAIN t \ {"start", "end", "dependencies"} : out[k] = t[k]

\* C21: parseTasks returns, for a JSON array of task objects, one task per
\* element in the same order with start and end kept when they match
\* YYYY-MM-DD and replaced by the current date otherwise, dependencies
\* defaulted to the empty list and every other field unchanged; an input
\* that is not a JSON array of objects is rejected with an error.
C21_Normalization ==
  /\ view.pc = "returned" =>
       /\ ArrayOfObjects(view.text)
       /\ Len(view.tasks) = Len(view.text.items)
       /\ \A i \in 1..Len(view.tasks) :
            Normalized(view.text.items[i].fields, view.today, view.tasks[i])
  /\ view.pc = "thrown" => ~ArrayOfObjects(view.text)

\* the part of C21 about arrays of objects alone
C21_ObjectsNormalized ==
  (view.pc = "returned" /\ ArrayOfObjects(view.text)) =>
     /\ Len(view.tasks) = Len(view.text.items)
     /\ \A i \in 1..Len(view.tasks) :
          Normalized(view.text.items[i].fields, view.today, view.tasks[i])

(***************************************************************************)
(* Properties of resetToDefault (specification Spec).                      *)
(***************************************************************************)
\* C22: after any sequence of successful store operations, a successful
\* resetToDefault sends the original default tasks of INITIAL_TASKS to the
\* backend and leaves exactly them, with their original field values, as
\* the store's in-memory collection.
C22_ResetRestoresDefaults ==
  /\ \A r \in pending :
       (r.op = "resetToDefault" /\ r.phase \in {"sent2", "ok"}) => r.tasks = INITIAL_TASKS
  /\ (lastEvent.kind = "resetToDefault" /\ lastEvent.ok) => currentTasks = INITIAL_TASKS

(***************************************************************************)
(* services/db.ts: CutoverDB.saveTasks on the IndexedDB object store       *)
(* "tasks" (keyPath id): the store is the set of its records.              *)
(***************************************************************************)
\* store.put(task): the record of the same key is replaced
IDBPut(records, task) == {t \in records : t.id # task.id} \cup {task}

RECURSIVE IDBPutAll(_, _)
IDBPutAll(records, tasks) ==
  IF tasks = <<>> THEN records ELSE IDBPutAll(IDBPut(records, Head(tasks)), Tail(tasks))

\* store.clear(); tasks.forEach(task => store.put(task))
saveTasks(records, tasks) == IDBPutAll({}, tasks)

(***************************************************************************)
(* Properties of replaceAllTasks (specification Spec).                     *)
(***************************************************************************)
\* the rows of table tasks that hold the same tasks as the IndexedDB store
\* does after saveTasks(tasks) on a store that held the tasks of rows
RowsAfterSaveTasks(rows, tasks) ==
  {RowOf(JsonStringifyTask(t)) : t \in saveTasks(rows, tasks)}

\* C23: the step in which the backend answers success to the sync of
\* store.replaceAllTasks(tasks) leaves as persisted task set exactly the
\* tasks of the array, no task of the previous workspace remaining: the
\* same set the IndexedDB implementation's saveTasks leaves.
C23_RestoreOverwrites ==
  [][\A r \in pending :
       (/\ InFlight(r) /\ r.op = "replaceAllTasks"
        /\ [r EXCEPT !.phase = "ok"] \in pending' \ pending)
         => db' = RowsAfterSaveTasks(db, r.tasks)]_vars

(***************************************************************************)
(* The edit modal on a loaded workspace: App is mounted, its initial fetch *)
(* has returned the tasks of the table, which form a forest (a task's      *)
(* parent, if any, has a smaller id); task 1 is expanded or collapsed.     *)
(***************************************************************************)
NumEditTasks == 2     \* tasks of the loaded workspace

Forests ==
  {[i \in 1..NumEditTasks |-> ViewTask(i, parents[i], collapsed, {})] :
     parents \in {p \in [1..NumEditTasks -> {Undefined} \cup 1..NumEditTasks] :
                    \A i \in 1..NumEditTasks : p[i] = Undefined \/ p[i] < i},
     collapsed \in {{}, {1}}}

\* the state after store.subscribe(AppCb) and its fetch of the rows
Loaded(rows) ==
  /\ db = rows
  /\ currentTasks \in GetTasks(rows)
  /\ initialTasks = INITIAL_TASKS
  /\ aliased = FALSE
  /\ subscribers = <<AppCb>>
  /\ received = [cb \in Callbacks |->
                   IF cb = AppCb THEN [got |-> TRUE, tasks |-> currentTasks]
                   ELSE [got |-> FALSE, tasks |-> <<>>]]
  /\ handles = {AppCb}
  /\ serial = 1
  /\ pending = {}
  /\ selectedTask = <<>>
  /\ focusedTaskId = Null
  /\ exportFile = <<>>
  /\ now = ClockBase + 1
  /\ lastEvent = Event("getTasks", "subscribe", TRUE, TRUE, "none", FALSE, <<>>)
  /\ cascade = [ids |-> {}, left |-> {}]

\* subscribe was the first operation
InitEdit ==
  /\ \E forest \in Forests :
       Loaded({RowOf(JsonStringifyTask(forest[i])) : i \in 1..Len(forest)})
  /\ ops = 1
  /\ view = ViewIdle

NextEdit ==
  \/ \E t \in Range(appTasks) : openEditModal(t)
  \/ \E t \in UNION {FormData(selectedTask[i]) : i \in 1..Len(selectedTask)} : handleSaveTask(t)
  \/ \E r \in pending : BackendPost(r)
  \/ \E r \in pending : updateTask_then(r)

SpecEdit == InitEdit /\ [][NextEdit]_vars

(***************************************************************************)
(* Properties of the parent select (specification SpecEdit).               *)
(***************************************************************************)
\* the ids reached from task id by at most n parentId links
RECURSIVE AncestorsOf(_, _, _)
AncestorsOf(tasks, id, n) ==
  IF n = 0 THEN {}
  ELSE LET parents == {tasks[i].parentId :
                         i \in {k \in 1..Len(tasks) :
                                  tasks[k].id = id /\ Truthy(tasks[k].parentId)}}
       IN  parents \cup UNION {AncestorsOf(tasks, p, n - 1) : p \in parents}

IsOwnAncestor(tasks, id) == id \in AncestorsOf(tasks, id, Len(tasks))

\* C24: starting from a forest, after any sequence of parent changes saved
\* through the edit modal, each a parent offered by isValidParent, no task
\* of the collection is its own ancestor.
C24_NoParentCycle ==
  \A id \in Ids(currentTasks) : ~IsOwnAncestor(currentTasks, id)

\* what isValidParent does rule out: no task is its own parent
C24_NoSelfParent ==
  \A i \in 1..Len(currentTasks) : currentTasks[i].parentId # currentTasks[i].id

(***************************************************************************)
(* App.tsx: handleAIPlanGenerated(newTasks) on a loaded workspace.  In     *)
(* subtasks mode aiParentTask is a task of the collection.  idMap is the   *)
(* function from the keys set so far to their values.                      *)
(***************************************************************************)
\* idMap.set(key, value)
MapSet(map, key, value) ==
  [k \in DOMAIN map \cup {key} |-> IF k = key THEN value ELSE map[k]]

\* newTasks.forEach((t, index) => idMap.set(t.id, baseId + index)), the
\* first n tasks done
RECURSIVE FirstPass(_, _, _)
FirstPass(newTasks, baseId, n) ==
  IF n = 0 THEN <<>>
  ELSE MapSet(FirstPass(newTasks, baseId, n - 1), newTasks[n].id, baseId + (n - 1))

\* t.dependencies?.map(d => idMap.get(d) || d).filter(d => d !== undefined)
RemapDependencies(deps, idMap) ==
  LET mapped == [k \in 1..Len(deps) |->
                   IF deps[k] \in DOMAIN idMap /\ Truthy(idMap[deps[k]])
                   THEN idMap[deps[k]] ELSE deps[k]]
  IN  SelectSeq(mapped, LAMBDA d : d # Undefined)

\* newTasks.map(t => ({...t, id: idMap.get(t.id)!, parentId: aiParentTask.id,
\*                     dependencies: ...}))
SecondPass(newTasks, idMap, parent) ==
  [i \in 1..Len(newTasks) |->
     [newTasks[i] EXCEPT !.id = idMap[newTasks[i].id],
                         !.parentId = parent.id,
                         !.dependencies = RemapDependencies(@, idMap)]]

\* plan mode: store.replaceAllTasks(newTasks); setFocusedTaskId(null)
handleAIPlanGenerated_plan ==
  /\ Mounted
  /\ view.pc = "init" /\ view.mode = "plan"
  /\ pending' = Enqueue(pending,
        <<Req("replaceAllTasks", "handleAIPlanGenerated", "none", <<>>, Undefined, view.newTasks)>>)
  /\ focusedTaskId' = Null
  /\ view' = [view EXCEPT !.pc = "done"]
  /\ ops' = ops + 1
  /\ lastEvent' = Event("handleAIPlanGenerated", "plan", TRUE, FALSE, "none", FALSE, <<>>)
  /\ UNCHANGED <<currentTasks, initialTasks, aliased, subscribers, received, handles,
                 db, serial, selectedTask, exportFile, now, cascade>>

\* subtasks mode, first pass: baseId = Date.now(), clock is what it returns
handleAIPlanGenerated_ids(clock) ==
  /\ Mounted
  /\ view.pc = "init" /\ view.mode = "subtasks"
  /\ clock \in now..(ClockBase + MaxClock)
  /\ now' = clock
  /\ view' = [view EXCEPT !.pc = "mapped", !.baseId = clock,
                          !.idMap = FirstPass(view.newTasks, clock, Len(view.newTasks))]
  /\ UNCHANGED <<currentTasks, initialTasks, aliased, subscribers, received, handles,
                 db, serial, pending, selectedTask, focusedTaskId, exportFile, ops,
                 lastEvent, cascade>>

\* subtasks mode, second pass: finalTasks.forEach(t => store.addTask(t)),
\* the parent expanded if it is not, setFocusedTaskId(null)
handleAIPlanGenerated_add ==
  /\ view.pc = "mapped"
  /\ LET finalTasks == SecondPass(view.newTasks, view.idMap, view.aiParentTask)
         adds   == [i \in 1..Len(finalTasks) |->
                      Req("addTask", "handleAIPlanGenerated", "none", <<finalTasks[i]>>,
                          Undefined, <<>>)]
         expand == IF ~view.aiParentTask.isExpanded
                   THEN <<Req("updateTask", "handleAIPlanGenerated", "none",
                              <<[view.aiParentTask EXCEPT !.isExpanded = TRUE]>>, Undefined, <<>>)>>
                   ELSE <<>>
     IN  /\ pending' = Enqueue(pending, adds \o expand)
         /\ view' = [view EXCEPT !.pc = "done", !.finalTasks = finalTasks]
  /\ focusedTaskId' = Null
  /\ ops' = ops + 1
  /\ lastEvent' = Event("handleAIPlanGenerated", "subtasks", TRUE, FALSE, "none", FALSE, <<>>)
  /\ UNCHANGED <<currentTasks, initialTasks, aliased, subscribers, received, handles,
                 db, serial, selectedTask, exportFile, now, cascade>>

\* the AI output: up to MaxAITasks tasks whose ids are 1 or 2, possibly the
\* same, and whose dependencies name those ids or a task of the workspace
AIDependencies == {<<>>, <<1>>, <<2>>, <<1, 2>>, <<9>>}

AITask(id, dependencies) ==
  [ViewTask(1, Undefined, {}, {}) EXCEPT !.id = id, !.dependencies = dependencies]

AIOutputs ==
  UNION {[1..n -> {AITask(id, deps) : id \in {1, 2}, deps \in AIDependencies}] :
           n \in 0..MaxAITasks}

AIInputs(tasks) ==
  {[pc |-> "init", mode |-> mode, newTasks |-> newTasks, aiParentTask |-> parent,
    baseId |-> 0, idMap |-> <<>>, finalTasks |-> <<>>] :
     mode \in {"plan", "subtasks"}, newTasks \in AIOutputs, parent \in Range(tasks)}

InitAI ==
  /\ \E forest \in Forests :
       Loaded({RowOf(JsonStringifyTask(forest[i])) : i \in 1..Len(forest)})
  /\ ops = 1
  /\ view \in AIInputs(currentTasks)

NextAI ==
  \/ handleAIPlanGenerated_plan
  \/ \E clock \in now..(ClockBase + MaxClock) : handleAIPlanGenerated_ids(clock)
  \/ handleAIPlanGenerated_add

SpecAI == InitAI /\ [][NextAI]_vars

(***************************************************************************)
(* Properties of handleAIPlanGenerated (specification SpecAI).             *)
(***************************************************************************)
SubtasksAdded == view.pc = "done" /\ view.mode = "subtasks"

\* every generated task has the parent's id as parentId, and a dependency
\* that is the AI's id of a generated task is the new id of that task
ParentAndDependenciesSet ==
  /\ Len(view.finalTasks) = Len(view.newTasks)
  /\ \A i \in 1..Len(view.finalTasks) :
       /\ view.finalTasks[i].parentId = view.aiParentTask.id
       /\ Len(view.finalTasks[i].dependencies) = Len(view.newTasks[i].dependencies)
       /\ \A k \in 1..Len(view.newTasks[i].dependencies), j \in 1..Len(view.newTasks) :
            view.newTasks[j].id = view.newTasks[i].dependencies[k]
              => view.finalTasks[i].dependencies[k] = view.finalTasks[j].id

DistinctIds(tasks) == \A i, j \in 1..Len(tasks) : i # j => tasks[i].id # tasks[j].id

\* C25: in subtasks mode the generated tasks get pairwise distinct ids, for
\* every AI output, including one that repeats an id; each has the parent
\* task's id as parentId; each dependency on another generated task is
\* rewritten to that task's new id.
C25_ReIdentification ==
  SubtasksAdded => (DistinctIds(view.finalTasks) /\ ParentAndDependenciesSet)

\* the same for AI outputs whose ids are pairwise distinct
C25_ReIdentificationOfDistinct ==
  (SubtasksAdded /\ DistinctIds(view.newTasks)) =>
    (DistinctIds(view.finalTasks) /\ ParentAndDependenciesSet)

(***************************************************************************)
(* The New Task flow on a loaded workspace: App.addTask(parentId) has sent *)
(* store.addTask(newTask) and opened the edit modal on newTask, and the    *)
(* user has saved the modal, handleSaveTask(edited), before the addTask    *)
(* has completed.  view remembers the two tasks; the steps that follow are *)
(* the two POSTs and the two continuations, in any order.                  *)
(***************************************************************************)
\* the request of store.updateTask(edited), issued while no other
\* updateTask of that id is in flight
IssuedEdit(edited) ==
  [Req("addTask", "handleSaveTask", "success", <<edited>>, Undefined, <<>>)
     EXCEPT !.op = "updateTask"]

InitCreateEdit ==
  /\ \E forest \in Forests :
       /\ db = {RowOf(JsonStringifyTask(forest[i])) : i \in 1..Len(forest)}
       /\ currentTasks \in GetTasks(db)
  /\ initialTasks = INITIAL_TASKS
  /\ aliased = FALSE
  /\ subscribers = <<AppCb>>
  /\ received = [cb \in Callbacks |->
                   IF cb = AppCb THEN [got |-> TRUE, tasks |-> currentTasks]
                   ELSE [got |-> FALSE, tasks |-> <<>>]]
  /\ handles = {AppCb}
  /\ serial = 1
  /\ exportFile = <<>>
  /\ now \in (ClockBase + 1)..(ClockBase + MaxClock)
  /\ \E parentId \in {Undefined} \cup {t.id : t \in {u \in Range(appTasks) : u.isExpanded}} :
       LET newTask == NewTask(appTasks, Null, parentId, now)
       IN  \E edited \in FormData(newTask) :
             /\ view = [pc |-> "issued", task |-> newTask, edited |-> edited]
             /\ pending = {Req("addTask", "addTask", "success", <<newTask>>, Undefined, <<>>),
                           IssuedEdit(edited)}
             /\ focusedTaskId = newTask.id
  /\ selectedTask = <<>>
  /\ ops = 3
  /\ lastEvent = Event("handleSaveTask", "handleSaveTask", TRUE, FALSE, "success", FALSE, <<>>)
  /\ cascade = [ids |-> {}, left |-> {}]

NextCreateEdit ==
  \/ \E r \in pending : BackendPost(r)
  \/ \E r \in pending : addTask_then(r)
  \/ \E r \in pending : updateTask_then(r)

SpecCreateEdit == InitCreateEdit /\ [][NextCreateEdit]_vars

(***************************************************************************)
(* Properties of the New Task flow (specification SpecCreateEdit).         *)
(***************************************************************************)
\* the collection holds a task of the id of task, and every task of that id
\* is task
Holds(tasks, task) ==
  /\ task.id \in Ids(tasks)
  /\ \A i \in 1..Len(tasks) : tasks[i].id = task.id => tasks[i] = task

\* C26: once addTask(t) and the updateTask(t') issued before it completed
\* have both completed successfully, in whatever order the two responses
\* resolved, the in-memory collection holds t' for that id and the
\* subscriber has been notified of it.
C26_EditAfterCreateKept ==
  pending = {} => (Holds(currentTasks, view.edited) /\ Holds(appTasks, view.edited))

\* the other order: when the addTask completes before the updateTask does,
\* the edit is in the collection
C26_EditKeptWhenCreateCompletesFirst ==
  [][\A r \in pending :
       (r.op = "updateTask" /\ r.phase = "ok" /\ r \notin pending'
        /\ view.task.id \in Ids(currentTasks))
         => (Holds(currentTasks', view.edited) /\ Holds(received'[AppCb].tasks, view.edited))]_vars

(***************************************************************************)
(* App.tsx: deleteTask(id), the recursion of collect step by step.  A      *)
(* frame of the stack is one call of collect: the children it iterates     *)
(* over and the next of them; visits lists the calls made so far.          *)
(***************************************************************************)
\* tasks.filter(t => t.parentId === taskId), as ids
ChildIds(tasks, taskId) ==
  LET children == SelectSeq(tasks, LAMBDA t : t.parentId = taskId)
  IN  [i \in 1..Len(children) |-> children[i].id]

\* collect(id) is called
collect_start ==
  /\ view.pc = "init"
  /\ view' = [view EXCEPT !.pc = "run",
                          !.idsToDelete = {view.id},
                          !.visits = <<view.id>>,
                          !.stack = <<[list |-> ChildIds(view.tasks, view.id), i |-> 1]>>]
  /\ UNCHANGED storeVars

\* forEach(child => collect(child.id)): the next child is visited, unless
\* the engine's stack is full (RangeError)
collect_child ==
  /\ view.pc = "run"
  /\ LET top == view.stack[Len(view.stack)]
     IN  /\ top.i <= Len(top.list)
         /\ IF Len(view.stack) >= StackLimit(view.tasks)
            THEN view' = [view EXCEPT !.pc = "overflow"]
            ELSE view' = [view EXCEPT
                   !.idsToDelete = @ \cup {top.list[top.i]},
                   !.visits = Append(@, top.list[top.i]),
                   !.stack = Append([view.stack EXCEPT ![Len(view.stack)].i = top.i + 1],
                                    [list |-> ChildIds(view.tasks, top.list[top.i]), i |-> 1])]
  /\ UNCHANGED storeVars

\* forEach is through: the innermost call of collect returns
collect_return ==
  /\ view.pc = "run"
  /\ LET top == view.stack[Len(view.stack)]
     IN  /\ top.i > Len(top.list)
         /\ view' = [view EXCEPT
               !.stack = SubSeq(@, 1, Len(@) - 1),
               !.pc = IF Len(view.stack) = 1 THEN "done" ELSE "run"]
  /\ UNCHANGED storeVars

\* the inputs: MaxViewTasks tasks with ids 1..MaxViewTasks, any parent links
\* (none or any id of the collection, its own included), any id to delete
CollectInputs ==
  {[pc |-> "init",
    tasks |-> [i \in ViewIds |-> ViewTask(i, parents[i], {}, {})],
    id |-> id, idsToDelete |-> {}, visits |-> <<>>, stack |-> <<>>] :
     parents \in [ViewIds -> {Undefined} \cup ViewIds], id \in ViewIds}

InitCollect ==
  /\ StoreAtLoad
  /\ focusedTaskId = Null
  /\ view \in CollectInputs

NextCollect ==
  \/ collect_start
  \/ collect_child
  \/ collect_return

SpecCollect == InitCollect /\ [][NextCollect]_vars

(***************************************************************************)
(* Properties of collect (specification SpecCollect).                      *)
(***************************************************************************)
VisitedOnce == \A i, j \in 1..Len(view.visits) : i # j => view.visits[i] # view.visits[j]

\* C27: for every collection with unique ids, parent cycles and tasks that
\* are their own parent included, the collect walk of deleteTask(id)
\* terminates (the stack never overflows) and visits each task at most once.
C27_CollectTerminates ==
  view.pc # "overflow" /\ VisitedOnce

\* the same when the task to delete is not its own ancestor
C27_CollectTerminatesOffCycles ==
  ~IsOwnAncestor(view.tasks, view.id) => (view.pc # "overflow" /\ VisitedOnce)

\* the walk returns the set the recursive definition gives
C27_CollectAgrees ==
  /\ view.pc = "done" => view.idsToDelete = collect(view.tasks, view.id, 0)
  /\ view.pc = "overflow" => Overflow \in collect(view.tasks, view.id, 0)

(***************************************************************************)
(* Properties of the view-model builder with no filter set and every task  *)
(* expanded (specification SpecView).                                      *)
(***************************************************************************)
NothingHidden ==
  /\ view.filters = [type |-> "all", owner |-> "all", status |-> "all"]
  /\ \A i \in 1..Len(view.tasks) : view.tasks[i].isExpanded

\* every task of the collection is the task of exactly one row
IsPermutation ==
  /\ Len(view.flatList) = Len(view.tasks)
  /\ \A i \in 1..Len(view.tasks) :
       Cardinality({r \in Rows : view.flatList[r].task = view.tasks[i]}) = 1

\* C28: with all filters 'all' and every task expanded, the output of the
\* view-model builder contains each task of the collection exactly once,
\* also when tasks are their own parent or lie on a parent cycle.
C28_ViewIsPermutation ==
  (view.pc = "done" /\ NothingHidden) => IsPermutation

\* the same for collections without a parent cycle
C28_ForestIsPermutation ==
  (view.pc = "done" /\ NothingHidden /\ ~HasCycle) => IsPermutation

(***************************************************************************)
(* Properties of the initial fetch against completed mutations             *)
(* (specification Spec).                                                   *)
(***************************************************************************)
Persisted(t) == RowOf(JsonStringifyTask(t)) \in db

SameTask(t, u) == RowOf(JsonStringifyTask(t)) = RowOf(JsonStringifyTask(u))

\* C29: when every mutation has completed (only fetches are in flight), the
\* step that completes a fetch does not take away from the in-memory
\* collection, and so from the snapshot it delivers, a task that the
\* collection holds and the backend holds as well: the fetched data, read
\* before the mutation that wrote the task, does not overwrite its effect.
C29_NoStaleLoad ==
  [][\A r \in pending :
       (/\ r.op = "getTasks" /\ r.phase = "ok" /\ r \notin pending'
        /\ \A q \in pending : q.op = "getTasks")
         => \A t \in Range(currentTasks) :
              Persisted(t) => \E u \in Range(currentTasks') : SameTask(t, u)]_vars

(***************************************************************************)
(* Subscribing and unsubscribing on a loaded workspace: App's callback is  *)
(* subscribed and has received the tasks of the table; ops counts the      *)
(* operations from here on.  Callbacks subscribe (each call starts a       *)
(* fetch) and call their unsubscribe functions, fetches complete or fail,  *)
(* and App adds tasks while it is subscribed.                              *)
(***************************************************************************)
InitSubscribe ==
  /\ \E forest \in Forests :
       Loaded({RowOf(JsonStringifyTask(forest[i])) : i \in 1..Len(forest)})
  /\ ops = 0
  /\ view = ViewIdle

NextSubscribe ==
  \/ \E cb \in Callbacks : subscribe(cb)
  \/ \E cb \in Callbacks : unsubscribe(cb)
  \/ \E r \in pending : BackendGet(r)
  \/ \E r \in pending : getTasks_then(r)
  \/ \E r \in pending : getTasks_catch(r)
  \/ \E r \in pending : RequestFails(r)
  \/ \E p \in {Undefined} \cup Ids(appTasks), clock \in now..(ClockBase + MaxClock) :
        App_addTask(p, clock)
  \/ \E r \in pending : BackendPost(r)
  \/ \E r \in pending : addTask_then(r)
  \/ \E r \in pending : mutation_catch(r)

SpecSubscribe == InitSubscribe /\ [][NextSubscribe]_vars

(***************************************************************************)
(* Properties of unsubscribe (specification SpecSubscribe).                *)
(***************************************************************************)
\* the step is a call of the unsubscribe function made for lastEvent'.src[1]
UnsubscribeCalled == lastEvent'.kind = "unsubscribe" /\ ops' = ops + 1

\* how often callback cb is registered
Registrations(subs, cb) == Cardinality({i \in 1..Len(subs) : subs[i] = cb})

\* the registrations of the callbacks other than cb, in order
Others(subs, cb) == SelectSeq(subs, LAMBDA c : c # cb)

=============================================================================
